---- MODULE Spec2Model ----
(***************************************************************************)
(* Verification model of the operation registry of toolz                   *)
(* (src-tauri/src/operations.rs) and of the commands that register with    *)
(* it (src-tauri/src/remove.rs).                                           *)
(*                                                                         *)
(* The registry is a DashMap: get, insert, remove, len and retain are each *)
(* atomic with respect to one key, and nothing is held between two calls   *)
(* (the Ref returned by get is dropped, or was never produced, before the  *)
(* next call is issued).  Every map call of try_register, cancel and       *)
(* Drop is therefore one step of the model, and steps of different         *)
(* threads interleave freely.  len and retain visit the shards one after   *)
(* the other; each is taken as one step, retain deciding every entry       *)
(* under that entry's shard lock against the `now` read before it.         *)
(*                                                                         *)
(* Spec      all calls interleave at the grain of map calls                *)
(* SeqSpec   the same steps, calls running one after the other             *)
(* FairSpec  Spec, where every registered command runs to its end          *)
(***************************************************************************)
EXTENDS Integers, FiniteSets, Sequences, TLC

\* ------------------------------------------------------------ constants
SWEEP_THRESHOLD == 100
TOMBSTONE_MAX_AGE == 60
progress_interval == 100

\* ------------------------------------------------------------ bounds
NumOps == 2
NumCancels == 2
NumIds == 2
MaxTicks == 2
NumShards == 2
NumDirs == 2
MaxExtra == 2
MaxEntries == 3
MaxTargets == 3
NumPaths == 3
MaxNameLen == 3
MaxPatternLen == 2
MaxPairs == 2

Ops == 1..NumOps
Cancels == 1..NumCancels
\* operation ids chosen by callers (strings in the code, numbered here)
OpIds == 1..NumIds
\* ids of operations cancelled before they ever started (fresh ids)
FillerIds == (NumIds + 1)..(NumIds + SWEEP_THRESHOLD)
\* the value of an id argument before the call is made: an id no caller uses
NoId == NumIds + SWEEP_THRESHOLD + 1
\* the clock advances in steps of half the maximum age
TickStep == TOMBSTONE_MAX_AGE \div 2
\* the shards of the DashMap, each behind its own read-write lock
Shards == 1..NumShards
\* the shard that holds key k
shard(k) == (k % NumShards) + 1
\* the value of a thread's Ref when it holds none
NoRef == NumShards + 1
\* the directories that hold the entries of a scanned tree
Dirs == 1..NumDirs
\* last_progress_dir before the first Scanning event: String::new()
NoDir == NumDirs + 1
\* the largest number of entries a scan collects
MaxFiles == progress_interval + MaxExtra

VARIABLES
    entries,      \* OperationRegistry.entries: id -> OperationEntry
    cancel_flag,  \* the AtomicBool created by operation o's try_register
    now,          \* Instant::now(), in seconds
    opPc,         \* position of each command
    opId,         \* operation_id argument of each command
    opResult,     \* what try_register returned to the command
    opExit,       \* the path on which the command left its body
    sweepNow,     \* `now` local of sweep_old_tombstones
    cPc,          \* position of each cancel call
    cId,          \* id argument of each cancel call
    cFound,       \* branch taken by cancel's `if let`
    lastCall,     \* history: the id of the registry call that returned last,
                  \* when that call was a cancel that inserted a Tombstone
    opRef,        \* `entry` of try_register: the shard its Ref read-locks
    cRef,         \* `entry` of cancel: the shard its Ref read-locks
    opShard,      \* the shard DashMap::retain is about to write-lock
    sPc,          \* position of search_files_blocking
    pattern,      \* what the `pattern` argument of the search is
    events,       \* the sends made on on_progress: <<event, count, delivered>>
    sinkOpen,     \* whether a send on on_progress succeeds
    visited,      \* number of entries the walker has yielded
    all_files,    \* all_files.len()
    last_progress_dir,
    sResult,      \* what the search command returned: Ok or Err
    matching,     \* the scanned entries for which the match predicate holds
    examined,     \* the entries a worker of the parallel pass has visited
    results,      \* what the parallel pass collected
    sMatches,     \* the match list the search returned
    dPc,          \* position of the delete command
    files,        \* `files` argument of the delete: the target paths
    delete_empty_dirs,
    outcomes,     \* history: whether each attempted deletion succeeded
    successful,
    failed,
    parent_dirs,
    dirs,         \* the candidates the cleanup has still to visit, sorted
    deleted_dirs,
    dResult,      \* the DeleteResult the delete command returned
    tree,         \* the paths that exist in the file system
    name,         \* match_simple's arguments, as bytes
    pattern_arg,
    case_sensitive,
    simple_result, \* what match_simple returned
    rPc,          \* position of the rename command
    with_progress, \* the command is batch_rename_with_progress
    pairs,        \* the `files` argument of the rename: (old_path, new_path)
    attempts,     \* history: the outcome of each fs::rename so far
    renamed_files,
    errors,
    rResult       \* what the rename command returned

vars == <<entries, cancel_flag, now, opPc, opId, opResult, opExit, sweepNow,
          cPc, cId, cFound, lastCall, opRef, cRef, opShard,
          sPc, pattern, events, sinkOpen, visited, all_files,
          last_progress_dir, sResult,
          matching, examined, results, sMatches,
          dPc, files, delete_empty_dirs, outcomes, successful, failed,
          parent_dirs, dirs, deleted_dirs, dResult, tree,
          name, pattern_arg, case_sensitive, simple_result,
          rPc, with_progress, pairs, attempts, renamed_files, errors, rResult>>

opVars == <<opPc, opId, opResult, opExit, sweepNow>>
cVars == <<cPc, cId, cFound>>
\* read only by the specification that follows the locks of the map
lockVars == <<opRef, cRef, opShard>>
\* read only by the specification of the streaming search
searchVars == <<sPc, pattern, events, sinkOpen, visited, all_files,
                last_progress_dir, sResult>>
\* read only by the specification of the parallel match phase
matchVars == <<matching, examined, results, sMatches>>
\* read only by the specification of the streaming delete
deleteVars == <<dPc, files, delete_empty_dirs, outcomes, successful, failed,
                parent_dirs, dirs, deleted_dirs, dResult, tree>>
\* read only by the specification of match_simple
simpleVars == <<name, pattern_arg, case_sensitive, simple_result>>
\* read only by the specification of the renames
renameVars == <<rPc, with_progress, pairs, attempts, renamed_files, errors,
                rResult>>
restVars == <<simpleVars, renameVars>>
pipeVars == <<searchVars, matchVars, deleteVars, restVars>>

\* ------------------------------------------------------------ entries
Active(f) == <<"Active", f>>
Tombstone(created_at) == <<"Tombstone", created_at>>
None == <<"None", 0>>

IsActive(e) == e[1] = "Active"
IsTombstone(e) == e[1] = "Tombstone"

EmptyMap == [k \in {} |-> None]
FillerMap == [k \in FillerIds |-> Tombstone(0)]

\* DashMap::get
get(m, id) == IF id \in DOMAIN m THEN m[id] ELSE None

\* DashMap::insert
insert(m, id, v) == [k \in DOMAIN m \cup {id} |-> IF k = id THEN v ELSE m[k]]

remove_noop(m, id) == m

remove_clear(m, id) == [k \in {} |-> m[k]]

\* OperationRegistry::remove
remove(m, id) == [k \in DOMAIN m \ {id} |-> m[k]]

\* DashMap::len
len(m) == Cardinality(DOMAIN m)

\* Instant::duration_since saturates at zero
duration_since(t, earlier) == IF t >= earlier THEN t - earlier ELSE 0

sweep_keeps_tombstones_only(e, t) ==
    IsTombstone(e) /\ duration_since(t, e[2]) < TOMBSTONE_MAX_AGE

sweep_keeps_le(e, t) ==
    IF IsActive(e) THEN TRUE
    ELSE duration_since(t, e[2]) <= TOMBSTONE_MAX_AGE

\* OperationRegistry::sweep_old_tombstones, the retain closure
sweep_keeps(e, t) ==
    IF IsActive(e) THEN TRUE
    ELSE duration_since(t, e[2]) < TOMBSTONE_MAX_AGE

sweep_old_tombstones(m, t) ==
    [k \in {j \in DOMAIN m : sweep_keeps(m[j], t)} |-> m[k]]

\* ------------------------------------------------------------ Init
Init ==
    /\ entries \in {EmptyMap, FillerMap}
    /\ cancel_flag = [o \in Ops |-> FALSE]
    /\ now = 0
    /\ opPc = [o \in Ops |-> "idle"]
    /\ opId = [o \in Ops |-> NoId]
    /\ opResult = [o \in Ops |-> "none"]
    /\ opExit = [o \in Ops |-> "none"]
    /\ sweepNow = [o \in Ops |-> 0]
    /\ cPc = [c \in Cancels |-> "idle"]
    /\ cId = [c \in Cancels |-> NoId]
    /\ cFound = [c \in Cancels |-> "none"]
    /\ lastCall = NoId
    /\ opRef = [o \in Ops |-> NoRef]
    /\ cRef = [c \in Cancels |-> NoRef]
    /\ opShard = [o \in Ops |-> 1]
    /\ sPc = "idle"
    /\ pattern = "none"
    /\ events = << >>
    /\ sinkOpen = TRUE
    /\ visited = 0
    /\ all_files = 0
    /\ last_progress_dir = NoDir
    /\ sResult = "none"
    /\ matching = {}
    /\ examined = {}
    /\ results = {}
    /\ sMatches = {}
    /\ dPc = "idle"
    /\ files = << >>
    /\ delete_empty_dirs = FALSE
    /\ outcomes = << >>
    /\ successful = << >>
    /\ failed = << >>
    /\ parent_dirs = {}
    /\ dirs = << >>
    /\ deleted_dirs = << >>
    /\ dResult = "none"
    /\ tree = {}
    /\ name = << >>
    /\ pattern_arg = << >>
    /\ case_sensitive = FALSE
    /\ simple_result = [kind |-> "NotCalled", ranges |-> << >>]
    /\ rPc = "idle"
    /\ with_progress = FALSE
    /\ pairs = << >>
    /\ attempts = << >>
    /\ renamed_files = << >>
    /\ errors = << >>
    /\ rResult = [kind |-> "NotReturned", value |-> << >>]

\* ------------------------------------------------------------ try_register
\* branch of the tombstone check of try_register
try_register_branch_ignore(e) == "proceed"

try_register_branch_occupied(e) == IF e # None THEN "remove" ELSE "proceed"

try_register_branch(e) == IF IsTombstone(e) THEN "remove" ELSE "proceed"

\* self.entries.get(id) and the matches! on it
try_register_get(o, id) ==
    /\ opPc[o] = "idle"
    /\ opId' = [opId EXCEPT ![o] = id]
    /\ opPc' = [opPc EXCEPT ![o] =
           IF try_register_branch(get(entries, id)) = "remove"
           THEN "reg_remove" ELSE "reg_len"]
    /\ UNCHANGED <<entries, cancel_flag, now, opResult, opExit, sweepNow,
                   cVars, lastCall>>

\* self.entries.remove(id); return Err(CancelledError): the command sends
\* Cancelled and returns without a guard
try_register_remove(o) ==
    /\ opPc[o] = "reg_remove"
    /\ entries' = remove(entries, opId[o])
    /\ opResult' = [opResult EXCEPT ![o] = "Err"]
    /\ opPc' = [opPc EXCEPT ![o] = "done"]
    /\ opExit' = [opExit EXCEPT ![o] = "pre_cancelled"]
    /\ lastCall' = NoId
    /\ UNCHANGED <<cancel_flag, now, opId, sweepNow, cVars>>

needs_sweep_ge(m) == len(m) >= SWEEP_THRESHOLD

\* self.entries.len() > SWEEP_THRESHOLD
needs_sweep(m) == len(m) > SWEEP_THRESHOLD

\* if self.entries.len() > SWEEP_THRESHOLD
try_register_len(o) ==
    /\ opPc[o] = "reg_len"
    /\ opPc' = [opPc EXCEPT ![o] =
           IF needs_sweep(entries) THEN "sweep_now" ELSE "reg_insert"]
    /\ UNCHANGED <<entries, cancel_flag, now, opId, opResult, opExit, sweepNow,
                   cVars, lastCall>>

\* let now = Instant::now()
sweep_now(o) ==
    /\ opPc[o] = "sweep_now"
    /\ sweepNow' = [sweepNow EXCEPT ![o] = now]
    /\ opPc' = [opPc EXCEPT ![o] = "sweep_retain"]
    /\ UNCHANGED <<entries, cancel_flag, now, opId, opResult, opExit,
                   cVars, lastCall>>

\* self.entries.retain(...); "swept" is the end of the `if` block
sweep_retain(o) ==
    /\ opPc[o] = "sweep_retain"
    /\ entries' = sweep_old_tombstones(entries, sweepNow[o])
    /\ opPc' = [opPc EXCEPT ![o] = "swept"]
    /\ UNCHANGED <<cancel_flag, now, opId, opResult, opExit, sweepNow, cVars,
                   lastCall>>

\* Arc::new(AtomicBool::new(false)); insert Active; return Ok((guard, flag))
try_register_insert(o) ==
    /\ opPc[o] \in {"reg_insert", "swept"}
    /\ cancel_flag' = [cancel_flag EXCEPT ![o] = FALSE]
    /\ entries' = insert(entries, opId[o], Active(o))
    /\ opResult' = [opResult EXCEPT ![o] = "Ok"]
    /\ opPc' = [opPc EXCEPT ![o] = "registered"]
    /\ sweepNow' = [sweepNow EXCEPT ![o] = 0]
    /\ lastCall' = NoId
    /\ UNCHANGED <<now, opId, opExit, cVars>>

\* ------------------------------------------------------------ commands
\* impl Drop for OperationGuard: self.registry.remove(&self.id)
drop(m, id) == remove(m, id)

\* search_files_with_progress: pattern.trim().is_empty() -> return Err;
\* the guard is dropped by the return
empty_pattern(o) ==
    /\ opPc[o] = "registered"
    /\ entries' = drop(entries, opId[o])
    /\ opPc' = [opPc EXCEPT ![o] = "done"]
    /\ opExit' = [opExit EXCEPT ![o] = "empty_pattern"]
    /\ lastCall' = NoId
    /\ UNCHANGED <<cancel_flag, now, opId, opResult, sweepNow, cVars>>

\* tokio::task::spawn_blocking(...): the worker owns the flag, the command
\* keeps the guard
spawn_blocking(o) ==
    /\ opPc[o] = "registered"
    /\ opPc' = [opPc EXCEPT ![o] = "running"]
    /\ UNCHANGED <<entries, cancel_flag, now, opId, opResult, opExit, sweepNow,
                   cVars, lastCall>>

\* the worker returns its result and the command returns it: the guard is
\* dropped at the end of the command's body
worker_returns(o) ==
    /\ opPc[o] = "running"
    /\ entries' = drop(entries, opId[o])
    /\ opPc' = [opPc EXCEPT ![o] = "done"]
    /\ opExit' = [opExit EXCEPT ![o] = "returned"]
    /\ lastCall' = NoId
    /\ UNCHANGED <<cancel_flag, now, opId, opResult, sweepNow, cVars>>

\* the worker panics: the join fails, `?` returns the error and the guard
\* is dropped
worker_panics(o) ==
    /\ opPc[o] = "running"
    /\ entries' = drop(entries, opId[o])
    /\ opPc' = [opPc EXCEPT ![o] = "done"]
    /\ opExit' = [opExit EXCEPT ![o] = "panic"]
    /\ lastCall' = NoId
    /\ UNCHANGED <<cancel_flag, now, opId, opResult, sweepNow, cVars>>

\* ------------------------------------------------------------ cancel
\* branch of cancel's `if let Some(entry) = self.entries.get(id)`
cancel_branch_reinsert(e) == IF IsActive(e) THEN "active" ELSE "absent"

cancel_branch(e) ==
    IF IsActive(e) THEN "active"
    ELSE IF IsTombstone(e) THEN "tombstone"
    ELSE "absent"

store_toggle(fl, f) == [fl EXCEPT ![f] = ~fl[f]]

store_all(fl, f) == [g \in DOMAIN fl |-> TRUE]

\* flag.store(true, Ordering::SeqCst)
store_true(fl, f) == [fl EXCEPT ![f] = TRUE]

\* self.entries.get(id), and flag.store(true) while the Ref is held
cancel_get(c, id) ==
    /\ cPc[c] = "idle"
    /\ cId' = [cId EXCEPT ![c] = id]
    /\ LET e == get(entries, id)
           b == cancel_branch(e)
       IN /\ cFound' = [cFound EXCEPT ![c] = b]
          /\ cancel_flag' = IF IsActive(e) /\ b = "active"
                            THEN store_true(cancel_flag, e[2]) ELSE cancel_flag
          /\ cPc' = [cPc EXCEPT ![c] = IF b = "absent" THEN "cancel_insert" ELSE "done"]
          /\ lastCall' = IF b = "absent" THEN lastCall ELSE NoId
    /\ UNCHANGED <<entries, now, opVars>>

\* self.entries.insert(id, Tombstone(Instant::now()))
cancel_insert(c) ==
    /\ cPc[c] = "cancel_insert"
    /\ entries' = insert(entries, cId[c], Tombstone(now))
    /\ cPc' = [cPc EXCEPT ![c] = "done"]
    /\ lastCall' = cId[c]
    /\ UNCHANGED <<cancel_flag, now, opVars, cId, cFound>>

\* ------------------------------------------------------------ time
Tick ==
    /\ now < MaxTicks * TickStep
    /\ now' = now + TickStep
    /\ UNCHANGED <<entries, cancel_flag, opVars, cVars, lastCall>>

\* ------------------------------------------------------------ Next
Next ==
    \/ \E o \in Ops, id \in OpIds : try_register_get(o, id) /\ UNCHANGED <<lockVars, pipeVars>>
    \/ \E o \in Ops : try_register_remove(o) /\ UNCHANGED <<lockVars, pipeVars>>
    \/ \E o \in Ops : try_register_len(o) /\ UNCHANGED <<lockVars, pipeVars>>
    \/ \E o \in Ops : sweep_now(o) /\ UNCHANGED <<lockVars, pipeVars>>
    \/ \E o \in Ops : sweep_retain(o) /\ UNCHANGED <<lockVars, pipeVars>>
    \/ \E o \in Ops : try_register_insert(o) /\ UNCHANGED <<lockVars, pipeVars>>
    \/ \E o \in Ops : empty_pattern(o) /\ UNCHANGED <<lockVars, pipeVars>>
    \/ \E o \in Ops : spawn_blocking(o) /\ UNCHANGED <<lockVars, pipeVars>>
    \/ \E o \in Ops : worker_returns(o) /\ UNCHANGED <<lockVars, pipeVars>>
    \/ \E o \in Ops : worker_panics(o) /\ UNCHANGED <<lockVars, pipeVars>>
    \/ \E c \in Cancels, id \in OpIds : cancel_get(c, id) /\ UNCHANGED <<lockVars, pipeVars>>
    \/ \E c \in Cancels : cancel_insert(c) /\ UNCHANGED <<lockVars, pipeVars>>
    \/ Tick /\ UNCHANGED <<lockVars, pipeVars>>

Spec == Init /\ [][Next]_vars

\* every command that registered runs to its end: the worker never suspends
\* and the command's body always returns or unwinds
Finish(o) ==
    /\ empty_pattern(o) \/ spawn_blocking(o) \/ worker_returns(o) \/ worker_panics(o)
    /\ UNCHANGED <<lockVars, pipeVars>>

FairSpec == Spec /\ \A o \in Ops : WF_vars(Finish(o))

\* Calls run one after the other: while a thread is between two map calls
\* of try_register or cancel, no other thread steps and no time passes.
MidCallOps == {o \in Ops : opPc[o] \in {"reg_remove", "reg_len", "sweep_now",
                                        "sweep_retain", "swept", "reg_insert"}}
MidCallCancels == {c \in Cancels : cPc[c] = "cancel_insert"}

Sequential ==
    /\ \A o \in MidCallOps : opPc'[o] # opPc[o]
    /\ \A c \in MidCallCancels : cPc'[c] # cPc[c]
    /\ UNCHANGED <<lockVars, pipeVars>>

SeqNext ==
    \/ \E o \in Ops, id \in OpIds : try_register_get(o, id) /\ Sequential
    \/ \E o \in Ops : try_register_remove(o) /\ Sequential
    \/ \E o \in Ops : try_register_len(o) /\ Sequential
    \/ \E o \in Ops : sweep_now(o) /\ Sequential
    \/ \E o \in Ops : sweep_retain(o) /\ Sequential
    \/ \E o \in Ops : try_register_insert(o) /\ Sequential
    \/ \E o \in Ops : empty_pattern(o) /\ Sequential
    \/ \E o \in Ops : spawn_blocking(o) /\ Sequential
    \/ \E o \in Ops : worker_returns(o) /\ Sequential
    \/ \E o \in Ops : worker_panics(o) /\ Sequential
    \/ \E c \in Cancels, id \in OpIds : cancel_get(c, id) /\ Sequential
    \/ \E c \in Cancels : cancel_insert(c) /\ Sequential
    \/ Tick /\ Sequential

SeqSpec == Init /\ [][SeqNext]_vars

\* ------------------------------------------------------------ vocabulary
EntryActive(id) == IsActive(get(entries, id))
EntryTombstone(id) == IsTombstone(get(entries, id))

\* the step on which command o's guard is dropped
DropStep(o) == opPc[o] \in {"registered", "running"} /\ opPc'[o] = "done"
\* the step on which try_register returns to command o
RegisterReturns(o) ==
    opPc[o] \in {"reg_remove", "reg_insert", "swept"} /\ opPc'[o] # opPc[o]
\* the first step of a cancel call, and any step of it
CancelStarts(c) == cPc[c] = "idle" /\ cPc'[c] # "idle"
CancelStep(c) == cPc'[c] # cPc[c]

\* every other entry is the same before and after the step
OthersUnchanged(id) ==
    \A k \in (DOMAIN entries \cup DOMAIN entries') \ {id} :
        /\ k \in DOMAIN entries
        /\ k \in DOMAIN entries'
        /\ entries'[k] = entries[k]

\* id is used by one command and one cancel call only
SingleUse(o, c) ==
    /\ opId[o] \in OpIds
    /\ cId[c] = opId[o]
    /\ \A o2 \in Ops \ {o} : opId[o2] # opId[o]
    /\ \A c2 \in Cancels \ {c} : cId[c2] # opId[o]

\* ------------------------------------------------------------ claims

\* C1: cancellation is never lost to the cancel/register race: for an id
\* used by one try_register and one cancel, once both have returned and the
\* operation is still running, try_register returned CancelledError or the
\* operation's flag is true.
C1_CancelNeverLost ==
    \A o \in Ops, c \in Cancels :
        (SingleUse(o, c) /\ cPc[c] = "done" /\ opPc[o] \in {"registered", "running"})
            => cancel_flag[o]

\* C2: sequentially, cancel(id) on an id with no entry followed by
\* try_register(id) makes try_register return CancelledError and leaves no
\* entry for id.
C2_PreCancelThenRegister ==
    [][\A o \in Ops :
          (RegisterReturns(o) /\ lastCall = opId[o])
              => (opResult'[o] = "Err" /\ opId[o] \notin DOMAIN entries')]_vars

C2_Witness ==
    \E o \in Ops, c \in Cancels :
        /\ opPc[o] = "done" /\ opExit[o] = "pre_cancelled"
        /\ cPc[c] = "done" /\ cFound[c] = "absent" /\ cId[c] = opId[o]
        /\ opId[o] \notin DOMAIN entries

\* C3: a Tombstone is consumed exactly once: of the try_register calls that
\* run against the Tombstone created by one cancel(id), exactly one returns
\* CancelledError.
C3_TombstoneConsumedOnce ==
    \A id \in OpIds :
        Cardinality({c \in Cancels : cId[c] = id}) = 1
            => Cardinality({o \in Ops : opId[o] = id /\ opResult[o] = "Err"}) <= 1

\* C4: immediately after a command's guard is dropped (normal return, early
\* error return, panic) the registry has no entry for the command's id.
C4_GuardDropRemoves ==
    [][\A o \in Ops : DropStep(o) => opId[o] \notin DOMAIN entries']_vars

C4_Witness ==
    \E o1 \in Ops, o2 \in Ops :
        /\ opPc[o1] = "done" /\ opExit[o1] = "panic"
        /\ opPc[o2] = "done" /\ opExit[o2] = "empty_pattern"
        /\ opId[o1] \notin DOMAIN entries
        /\ opId[o2] \notin DOMAIN entries

\* C5: guard drop is the only way an Active entry leaves the registry: no
\* step of cancel, of a sweep or of try_register's tombstone removal makes
\* an id that maps to an Active entry stop mapping to one.
C5_OnlyDropRemovesActive ==
    [][\A id \in OpIds :
          (EntryActive(id) /\ ~EntryActive(id)')
              => \E o \in Ops : DropStep(o) /\ opId[o] = id]_vars

\* C6: no id stays Active forever: when every command that registered
\* finishes, an id that maps to an Active entry eventually does not.
C6_NoIdActiveForever == \A id \in OpIds : EntryActive(id) ~> ~EntryActive(id)

C6_Witness ==
    \E o \in Ops :
        /\ opPc[o] = "done" /\ opExit[o] = "returned"
        /\ ~EntryActive(opId[o])
        /\ \E o2 \in Ops \ {o} : opPc[o2] = "running" /\ EntryActive(opId[o2])

\* C7: dropping the guard of a command removes the entry under its id only:
\* every entry under another id and every flag is unchanged.
C7_DropFrame ==
    [][\A o \in Ops :
          DropStep(o) => (OthersUnchanged(opId[o]) /\ cancel_flag' = cancel_flag)]_vars

C7_Witness ==
    \E o \in Ops :
        /\ opPc[o] = "done" /\ opExit[o] = "returned"
        /\ \E k \in OpIds \ {opId[o]} : EntryActive(k)
        /\ \E k \in FillerIds : EntryTombstone(k)

\* C8: cancel is idempotent on an Active id: a cancel(id) that finds id
\* Active leaves the entry Active with the same flag, sets that flag, and
\* changes nothing at all when the flag was already set.
C8_CancelIdempotent ==
    [][\A c \in Cancels :
          (CancelStarts(c) /\ EntryActive(cId'[c]))
              => LET f == entries[cId'[c]][2]
                 IN /\ entries' = entries
                    /\ cancel_flag'[f]
                    /\ \A g \in Ops \ {f} : cancel_flag'[g] = cancel_flag[g]
                    /\ cPc'[c] = "done"
                    /\ cancel_flag[f] => cancel_flag' = cancel_flag]_vars

C8_Witness ==
    \E c1 \in Cancels, c2 \in Cancels :
        /\ c1 # c2
        /\ cPc[c1] = "done" /\ cFound[c1] = "active"
        /\ cPc[c2] = "done" /\ cFound[c2] = "active"
        /\ cId[c1] = cId[c2]
        /\ EntryActive(cId[c1])
        /\ cancel_flag[entries[cId[c1]][2]]

\* C9: cancel(id) on an id that maps to a Tombstone returns at once and
\* leaves the registry unchanged, the Tombstone's timestamp included.
C9_CancelTombstoneNoop ==
    [][\A c \in Cancels :
          (CancelStarts(c) /\ EntryTombstone(cId'[c]))
              => (entries' = entries /\ cancel_flag' = cancel_flag /\ cPc'[c] = "done")]_vars

C9_Witness ==
    \E c \in Cancels :
        /\ cPc[c] = "done" /\ cFound[c] = "tombstone"
        /\ EntryTombstone(cId[c])
        /\ entries[cId[c]][2] < now

\* C10: cancel(id) affects only id: every entry under another id is
\* unchanged, and the only flag that can change is the one of the Active
\* entry under id, which becomes true.
C10_CancelFrame ==
    [][\A c \in Cancels :
          CancelStep(c)
              => /\ OthersUnchanged(cId'[c])
                 /\ \A f \in Ops :
                        cancel_flag'[f] # cancel_flag[f]
                            => (get(entries, cId'[c]) = Active(f) /\ cancel_flag'[f])]_vars

C10_Witness ==
    \E o1 \in Ops, o2 \in Ops, c \in Cancels :
        /\ opId[o1] # opId[o2]
        /\ opPc[o1] = "running" /\ opPc[o2] = "running"
        /\ get(entries, opId[o1]) = Active(o1) /\ get(entries, opId[o2]) = Active(o2)
        /\ cPc[c] = "done" /\ cFound[c] = "active" /\ cId[c] = opId[o1]
        /\ cancel_flag[o1] /\ ~cancel_flag[o2]

\* the step on which try_register returns Ok to command o
RegisterOk(o) == opPc[o] \in {"reg_insert", "swept"} /\ opPc'[o] = "registered"
\* the retain step of a sweep run by command o
SweepStep(o) == opPc[o] = "sweep_retain" /\ opPc'[o] = "swept"
\* what the sweep that command o is about to run leaves in the registry
SweepResult(o) == sweep_old_tombstones(entries, sweepNow[o])
\* no entry of m holds the flag of command p
Unreachable(m, p) == \A k \in DOMAIN m : m[k] # Active(p)

\* C11: every cancellation flag is monotonic: it is false when try_register
\* hands it out, and no step makes a true flag false.
C11_FlagMonotonic ==
    [][\A o \in Ops :
          /\ cancel_flag[o] => cancel_flag'[o]
          /\ RegisterOk(o) => ~cancel_flag'[o]]_vars

C11_Witness ==
    \E o \in Ops, c \in Cancels :
        /\ opPc[o] = "done" /\ opExit[o] = "returned"
        /\ cPc[c] = "done" /\ cFound[c] = "active" /\ cId[c] = opId[o]
        /\ cancel_flag[o]

\* C12: try_register(id) fails only when its lookup finds a Tombstone; in
\* every other case, id already Active included, it returns Ok, the entry
\* under id is Active with a fresh flag that is false, and the flag of a
\* replaced Active entry is no longer reachable from the registry.
C12_RegisterFailsOnlyOnTombstone ==
    [][\A o \in Ops :
          /\ (opPc[o] = "idle" /\ opPc'[o] # "idle")
                => (opPc'[o] = "reg_remove" <=> EntryTombstone(opId'[o]))
          /\ (opResult'[o] = "Err" /\ opResult[o] # "Err") => opPc[o] = "reg_remove"
          /\ (opPc[o] = "reg_len" /\ opPc'[o] # "reg_len")
                => opPc'[o] \in {"sweep_now", "reg_insert"}
          /\ RegisterOk(o)
                => /\ opResult'[o] = "Ok"
                   /\ Unreachable(entries, o)
                   /\ get(entries', opId[o]) = Active(o)
                   /\ ~cancel_flag'[o]
                   /\ \A p \in Ops \ {o} :
                          get(entries, opId[o]) = Active(p) => Unreachable(entries', p)]_vars

C12_Witness ==
    \E o1 \in Ops, o2 \in Ops :
        /\ o1 # o2 /\ opId[o1] = opId[o2]
        /\ opPc[o1] = "running" /\ opPc[o2] = "registered"
        /\ get(entries, opId[o2]) = Active(o2)
        /\ ~cancel_flag[o2]
        /\ Unreachable(entries, o1)

\* C13: stale removal on id reuse: when a guard is dropped while the entry
\* under its id belongs to a later registration that is still running, the
\* drop removes that entry and the later command keeps running without one;
\* a guard dropped when its id has no entry removes nothing.
C13_StaleRemoval ==
    [][\A o \in Ops :
          DropStep(o)
              => /\ \A p \in Ops \ {o} :
                        (get(entries, opId[o]) = Active(p)
                           /\ opPc[p] \in {"registered", "running"})
                            => (opId[o] \notin DOMAIN entries'
                                  /\ opPc'[p] = opPc[p])
                 /\ opId[o] \notin DOMAIN entries => entries' = entries]_vars

C13_Witness ==
    \E o1 \in Ops, o2 \in Ops :
        /\ o1 # o2 /\ opId[o1] = opId[o2]
        /\ opPc[o1] = "done" /\ opExit[o1] = "returned"
        /\ opPc[o2] = "running"
        /\ opId[o2] \notin DOMAIN entries
        /\ \A c \in Cancels : cPc[c] = "idle"

\* C14: a sweep never removes an Active entry: every Active entry present
\* when sweep_old_tombstones runs is present, with the same flag, after it.
C14_SweepKeepsActive ==
    \A o \in Ops :
        opPc[o] = "sweep_retain"
            => \A k \in DOMAIN entries :
                   IsActive(entries[k])
                       => (k \in DOMAIN SweepResult(o) /\ SweepResult(o)[k] = entries[k])

C14_Witness ==
    \E o \in Ops, p \in Ops :
        /\ opPc[o] = "swept"
        /\ FillerIds \cap DOMAIN entries = {}
        /\ p # o /\ opPc[p] = "running" /\ get(entries, opId[p]) = Active(p)

\* C15: sweeping is lazy: a sweep is entered only by a try_register that
\* found no Tombstone for its id and then read a size above the threshold,
\* and an entry under an id that the stepping call does not name leaves the
\* registry only on the retain step of such a sweep: cancel, guard drop and
\* a try_register at size <= threshold never drop an over-age Tombstone.
C15_LazySweep ==
    [][/\ \A o \in Ops :
              (opPc[o] = "idle" /\ opPc'[o] = "reg_len") => ~EntryTombstone(opId'[o])
       /\ \A o \in Ops :
              (opPc'[o] = "sweep_now" /\ opPc[o] # "sweep_now")
                  => (opPc[o] = "reg_len" /\ len(entries) > SWEEP_THRESHOLD)
       /\ \A o \in Ops :
              (opPc[o] = "reg_len" /\ opPc'[o] # "reg_len" /\ len(entries) <= SWEEP_THRESHOLD)
                  => opPc'[o] = "reg_insert"
       /\ \A k \in DOMAIN entries :
              k \notin DOMAIN entries'
                  => \/ \E o \in Ops : SweepStep(o)
                     \/ \E o \in Ops : opPc'[o] # opPc[o] /\ opId[o] = k]_vars

C15_Witness ==
    \E k \in OpIds, o \in Ops, c \in Cancels :
        /\ EntryTombstone(k)
        /\ now - entries[k][2] >= TOMBSTONE_MAX_AGE
        /\ len(entries) <= SWEEP_THRESHOLD
        /\ opPc[o] = "done" /\ opExit[o] = "returned" /\ opId[o] # k
        /\ cPc[c] = "done" /\ cFound[c] = "tombstone" /\ cId[c] = k

C17_TombstoneLeavesOnlyBySweepOrConsume ==
    [][\A k \in DOMAIN entries :
          (IsTombstone(entries[k]) /\ ~EntryTombstone(k)')
              => \/ \E o \in Ops : /\ opPc[o] = "reg_remove" /\ opPc'[o] = "done"
                                   /\ opId[o] = k
                 \/ \E o \in Ops : /\ SweepStep(o)
                                   /\ sweepNow[o] - entries[k][2] >= TOMBSTONE_MAX_AGE]_vars

\* ------------------------------------------------------------ locks
\* The same calls at the grain of the map's shard locks: DashMap::get
\* returns a Ref that read-locks the key's shard until it is dropped;
\* remove and insert write-lock the key's shard for the call; retain
\* write-locks the shards one after the other; len only reads.
regVars == <<opResult, opExit, cFound, lastCall, pipeVars>>

\* no Ref of any thread read-locks shard s: a write lock can be taken
WriteFree(s) ==
    /\ \A o \in Ops : opRef[o] # s
    /\ \A c \in Cancels : cRef[c] # s

\* the Ref that get returns: Some(entry) locks the shard, None locks nothing
ref_of(m, id) == IF id \in DOMAIN m THEN shard(id) ELSE NoRef

drop_entry_keep(r) == r

\* drop(entry), explicit or at the end of the `if let` block
drop_entry(r) == NoRef

\* DashMap::retain on one shard
retain_shard(m, s, t) ==
    [k \in {j \in DOMAIN m : shard(j) # s \/ sweep_keeps(m[j], t)} |-> m[k]]

\* if let Some(entry) = self.entries.get(id) { if matches!(*entry, Tombstone(_))
lock_try_register_get(o, id) ==
    /\ opPc[o] = "idle"
    /\ opId' = [opId EXCEPT ![o] = id]
    /\ opRef' = [opRef EXCEPT ![o] = ref_of(entries, id)]
    /\ opPc' = [opPc EXCEPT ![o] =
           IF try_register_branch(get(entries, id)) = "remove"
           THEN "lock_drop_entry" ELSE "lock_block_end"]
    /\ UNCHANGED <<entries, cancel_flag, now, sweepNow, cPc, cId, cRef, opShard,
                   regVars>>

\* drop(entry); // Release the read lock before removing
lock_drop_entry(o) ==
    /\ opPc[o] = "lock_drop_entry"
    /\ opRef' = [opRef EXCEPT ![o] = drop_entry(opRef[o])]
    /\ opPc' = [opPc EXCEPT ![o] = "lock_remove"]
    /\ UNCHANGED <<entries, cancel_flag, now, opId, sweepNow, cPc, cId, cRef,
                   opShard, regVars>>

\* self.entries.remove(id); return Err(CancelledError)
lock_try_register_remove(o) ==
    /\ opPc[o] = "lock_remove"
    /\ WriteFree(shard(opId[o]))
    /\ entries' = remove(entries, opId[o])
    /\ opPc' = [opPc EXCEPT ![o] = "done"]
    /\ UNCHANGED <<cancel_flag, now, opId, sweepNow, cPc, cId, lockVars, regVars>>

\* the closing brace of the `if let`: `entry` goes out of scope
lock_block_end(o) ==
    /\ opPc[o] = "lock_block_end"
    /\ opRef' = [opRef EXCEPT ![o] = drop_entry(opRef[o])]
    /\ opPc' = [opPc EXCEPT ![o] = "lock_len"]
    /\ UNCHANGED <<entries, cancel_flag, now, opId, sweepNow, cPc, cId, cRef,
                   opShard, regVars>>

\* if self.entries.len() > SWEEP_THRESHOLD
lock_try_register_len(o) ==
    /\ opPc[o] = "lock_len"
    /\ opPc' = [opPc EXCEPT ![o] =
           IF needs_sweep(entries) THEN "lock_now" ELSE "lock_insert"]
    /\ UNCHANGED <<entries, cancel_flag, now, opId, sweepNow, cPc, cId, lockVars,
                   regVars>>

\* let now = Instant::now()
lock_sweep_now(o) ==
    /\ opPc[o] = "lock_now"
    /\ sweepNow' = [sweepNow EXCEPT ![o] = now]
    /\ opPc' = [opPc EXCEPT ![o] = "lock_retain"]
    /\ UNCHANGED <<entries, cancel_flag, now, opId, cPc, cId, lockVars, regVars>>

\* self.entries.retain(...), one shard per step
lock_sweep_retain(o) ==
    /\ opPc[o] = "lock_retain"
    /\ WriteFree(opShard[o])
    /\ entries' = retain_shard(entries, opShard[o], sweepNow[o])
    /\ IF opShard[o] < NumShards
       THEN /\ opShard' = [opShard EXCEPT ![o] = opShard[o] + 1]
            /\ UNCHANGED opPc
       ELSE /\ opShard' = [opShard EXCEPT ![o] = 1]
            /\ opPc' = [opPc EXCEPT ![o] = "lock_insert"]
    /\ UNCHANGED <<cancel_flag, now, opId, sweepNow, cPc, cId, opRef, cRef,
                   regVars>>

\* self.entries.insert(id, Active(cancel_flag.clone())); return Ok
lock_try_register_insert(o) ==
    /\ opPc[o] = "lock_insert"
    /\ WriteFree(shard(opId[o]))
    /\ cancel_flag' = [cancel_flag EXCEPT ![o] = FALSE]
    /\ entries' = insert(entries, opId[o], Active(o))
    /\ opPc' = [opPc EXCEPT ![o] = "lock_guard"]
    /\ UNCHANGED <<now, opId, sweepNow, cPc, cId, lockVars, regVars>>

\* impl Drop for OperationGuard
lock_guard_drop(o) ==
    /\ opPc[o] = "lock_guard"
    /\ WriteFree(shard(opId[o]))
    /\ entries' = drop(entries, opId[o])
    /\ opPc' = [opPc EXCEPT ![o] = "done"]
    /\ UNCHANGED <<cancel_flag, now, opId, sweepNow, cPc, cId, lockVars, regVars>>

\* cancel: if let Some(entry) = self.entries.get(id)
lock_cancel_get(c, id) ==
    /\ cPc[c] = "idle"
    /\ cId' = [cId EXCEPT ![c] = id]
    /\ cRef' = [cRef EXCEPT ![c] = ref_of(entries, id)]
    /\ cPc' = [cPc EXCEPT ![c] =
           IF cancel_branch(get(entries, id)) = "absent"
           THEN "lock_insert" ELSE "lock_store"]
    /\ UNCHANGED <<entries, cancel_flag, now, opPc, opId, sweepNow, opRef,
                   opShard, regVars>>

\* if let Active(flag) = &*entry { flag.store(true) }, then `entry` goes
\* out of scope
lock_cancel_store(c) ==
    /\ cPc[c] = "lock_store"
    /\ LET e == get(entries, cId[c])
       IN cancel_flag' = IF IsActive(e) THEN store_true(cancel_flag, e[2])
                         ELSE cancel_flag
    /\ cRef' = [cRef EXCEPT ![c] = drop_entry(cRef[c])]
    /\ cPc' = [cPc EXCEPT ![c] = "done"]
    /\ UNCHANGED <<entries, now, opPc, opId, sweepNow, cId, opRef, opShard,
                   regVars>>

\* else { self.entries.insert(id, Tombstone(Instant::now())) }
lock_cancel_insert(c) ==
    /\ cPc[c] = "lock_insert"
    /\ WriteFree(shard(cId[c]))
    /\ entries' = insert(entries, cId[c], Tombstone(now))
    /\ cPc' = [cPc EXCEPT ![c] = "done"]
    /\ UNCHANGED <<cancel_flag, now, opPc, opId, sweepNow, cId, lockVars, regVars>>

\* the steps of the threads
LockStep ==
    \/ \E o \in Ops, id \in OpIds : lock_try_register_get(o, id)
    \/ \E o \in Ops : lock_drop_entry(o)
    \/ \E o \in Ops : lock_try_register_remove(o)
    \/ \E o \in Ops : lock_block_end(o)
    \/ \E o \in Ops : lock_try_register_len(o)
    \/ \E o \in Ops : lock_sweep_now(o)
    \/ \E o \in Ops : lock_sweep_retain(o)
    \/ \E o \in Ops : lock_try_register_insert(o)
    \/ \E o \in Ops : lock_guard_drop(o)
    \/ \E c \in Cancels, id \in OpIds : lock_cancel_get(c, id)
    \/ \E c \in Cancels : lock_cancel_store(c)
    \/ \E c \in Cancels : lock_cancel_insert(c)

LockNext ==
    \/ \E o \in Ops, id \in OpIds : lock_try_register_get(o, id)
    \/ \E o \in Ops : lock_drop_entry(o)
    \/ \E o \in Ops : lock_try_register_remove(o)
    \/ \E o \in Ops : lock_block_end(o)
    \/ \E o \in Ops : lock_try_register_len(o)
    \/ \E o \in Ops : lock_sweep_now(o)
    \/ \E o \in Ops : lock_sweep_retain(o)
    \/ \E o \in Ops : lock_try_register_insert(o)
    \/ \E o \in Ops : lock_guard_drop(o)
    \/ \E c \in Cancels, id \in OpIds : lock_cancel_get(c, id)
    \/ \E c \in Cancels : lock_cancel_store(c)
    \/ \E c \in Cancels : lock_cancel_insert(c)
    \/ Tick /\ UNCHANGED <<lockVars, pipeVars>>

LockSpec == Init /\ [][LockNext]_vars

\* the threads that are about to take a write lock, with the shard
OpWrites(o) ==
    IF opPc[o] \in {"lock_remove", "lock_insert", "lock_guard"} THEN {shard(opId[o])}
    ELSE IF opPc[o] = "lock_retain" THEN {opShard[o]}
    ELSE {}
CancelWrites(c) == IF cPc[c] = "lock_insert" THEN {shard(cId[c])} ELSE {}

\* C18: the registry is deadlock-free: while some call has not returned,
\* some thread can take a step, so concurrent try_register, cancel and guard
\* drop calls, also on the same ids, all run to completion; and no call
\* holds a Ref into the map while it issues a remove, insert or retain.
C18_DeadlockFree ==
    /\ (\/ \E o \in Ops : opPc[o] \notin {"idle", "done"}
        \/ \E c \in Cancels : cPc[c] \notin {"idle", "done"}) => ENABLED LockStep
    /\ \A o \in Ops : OpWrites(o) # {} => opRef[o] = NoRef
    /\ \A c \in Cancels : CancelWrites(c) # {} => cRef[c] = NoRef

C18_Witness ==
    \E o \in Ops, c \in Cancels :
        /\ opPc[o] = "lock_remove" /\ opRef[o] = NoRef
        /\ cPc[c] = "lock_store" /\ cId[c] = opId[o] /\ cRef[c] = shard(opId[o])
        /\ ~WriteFree(shard(opId[o]))

\* ------------------------------------------------------------ search
\* One run of search_files_with_progress under one operation id, with one
\* concurrent cancel of that id and a frontend that may go away.
Cmd == CHOOSE o \in Ops : \A p \in Ops : o <= p
Canceller == CHOOSE c \in Cancels : \A d \in Cancels : c <= d
CmdId == CHOOSE k \in OpIds : \A j \in OpIds : k <= j

\* the `pattern` argument: blank, a regex that does not compile, or usable
Patterns == {"empty", "invalid_regex", "valid"}

registryVars == <<entries, cancel_flag, now, opVars, cVars, lastCall, lockVars>>
scanVars == <<visited, all_files, last_progress_dir>>

\* on_progress.send(event): the send is made, and succeeds iff the sink is open
send(ev, event, n) == Append(ev, <<event, n, sinkOpen>>)

return_falls_through(pc) == pc

\* `return ...;` inside search_files_blocking
return_from(pc) == "returned"

\* the frontend drops the channel
channel_closes ==
    /\ sinkOpen
    /\ sinkOpen' = FALSE
    /\ UNCHANGED <<registryVars, sPc, pattern, events, scanVars, sResult>>

\* search_files_with_progress is invoked: registry.try_register(&operation_id)
search_invoke(pat) ==
    /\ try_register_get(Cmd, CmdId)
    /\ pattern' = pat
    /\ UNCHANGED <<lockVars, sPc, events, sinkOpen, scanVars, sResult>>

\* Err(_) => { let _ = on_progress.send(Cancelled); return Ok(vec![]); }
search_pre_cancelled ==
    /\ try_register_remove(Cmd)
    /\ events' = send(events, "Cancelled", 0)
    /\ sResult' = "OkEmpty"
    /\ UNCHANGED <<lockVars, sPc, pattern, sinkOpen, scanVars>>

\* the rest of try_register, below the sweep threshold
search_register_len ==
    try_register_len(Cmd) /\ UNCHANGED <<lockVars, searchVars>>

search_register_insert ==
    try_register_insert(Cmd) /\ UNCHANGED <<lockVars, searchVars>>

\* if pattern.trim().is_empty() { return Err(...) }
search_empty_pattern ==
    /\ pattern = "empty"
    /\ empty_pattern(Cmd)
    /\ sResult' = "Err"
    /\ UNCHANGED <<lockVars, sPc, pattern, events, sinkOpen, scanVars>>

\* tokio::task::spawn_blocking(move || search_files_blocking(...))
search_spawn ==
    /\ pattern # "empty"
    /\ spawn_blocking(Cmd)
    /\ sPc' = "send_started"
    /\ UNCHANGED <<lockVars, pattern, events, sinkOpen, scanVars, sResult>>

\* on_progress.send(Started { .. }).is_err() => return Ok(vec![])
send_started ==
    /\ sPc = "send_started"
    /\ events' = send(events, "Started", 0)
    /\ IF sinkOpen
       THEN sPc' = "scan" /\ UNCHANGED sResult
       ELSE sPc' = return_from(sPc) /\ sResult' = "OkEmpty"
    /\ UNCHANGED <<registryVars, pattern, sinkOpen, scanVars>>

\* one iteration of `for entry in walker`, for an entry whose parent is d
scan_entry(d) ==
    /\ sPc = "scan"
    /\ all_files < MaxFiles
    /\ IF cancel_flag[Cmd]
       THEN /\ events' = send(events, "Cancelled", 0)
            /\ sPc' = return_from(sPc)
            /\ sResult' = "OkEmpty"
            /\ UNCHANGED scanVars
       ELSE IF visited = 0
       THEN \* path == base_path: continue
            /\ visited' = visited + 1
            /\ UNCHANGED <<events, sPc, sResult, all_files, last_progress_dir>>
       ELSE IF all_files % progress_interval = 0 /\ d # last_progress_dir
       THEN /\ last_progress_dir' = d
            /\ events' = send(events, "Scanning", all_files)
            /\ IF sinkOpen
               THEN /\ all_files' = all_files + 1
                    /\ visited' = visited + 1
                    /\ UNCHANGED <<sPc, sResult>>
               ELSE /\ sPc' = return_from(sPc)
                    /\ sResult' = "OkEmpty"
                    /\ UNCHANGED <<visited, all_files>>
       ELSE /\ all_files' = all_files + 1
            /\ visited' = visited + 1
            /\ UNCHANGED <<events, sPc, sResult, last_progress_dir>>
    /\ UNCHANGED <<registryVars, pattern, sinkOpen>>

\* the walker is exhausted; the check before the matching phase and
\* on_progress.send(Matching { .. })
scan_ends ==
    /\ sPc = "scan"
    /\ IF cancel_flag[Cmd]
       THEN /\ events' = send(events, "Cancelled", 0)
            /\ sPc' = return_from(sPc)
            /\ sResult' = "OkEmpty"
       ELSE /\ events' = send(events, "Matching", all_files)
            /\ IF sinkOpen
               THEN sPc' = "compile" /\ UNCHANGED sResult
               ELSE sPc' = return_from(sPc) /\ sResult' = "OkEmpty"
    /\ UNCHANGED <<registryVars, pattern, sinkOpen, scanVars>>

\* regex::Regex::new(..).map_err(|e| e.to_string())?
compile_regex ==
    /\ sPc = "compile"
    /\ IF pattern = "invalid_regex"
       THEN sPc' = return_from(sPc) /\ sResult' = "Err"
       ELSE sPc' = "match" /\ UNCHANGED sResult
    /\ UNCHANGED <<registryVars, pattern, events, sinkOpen, scanVars>>

\* all_files.par_iter().filter_map(..).collect(), as one step: which
\* entries match is followed by filter_map_entry and collect below
parallel_match ==
    /\ sPc = "match"
    /\ sPc' = "matched"
    /\ UNCHANGED <<registryVars, pattern, events, sinkOpen, scanVars, sResult>>

load_stale(fl) == FALSE

\* cancel_flag.load(Ordering::SeqCst)
load(fl) == fl[Cmd]

return_partial(r) == r

\* return Ok(vec![])
return_empty(r) == {}

\* the check after the parallel pass, send(Completed { .. }), Ok(results)
search_completes ==
    /\ sPc = "matched"
    /\ IF load(cancel_flag)
       THEN /\ events' = send(events, "Cancelled", 0)
            /\ sResult' = "OkEmpty"
            /\ sMatches' = return_empty(results)
       ELSE /\ events' = send(events, "Completed", Cardinality(results))
            /\ sResult' = "OkMatches"
            /\ sMatches' = results
    /\ sPc' = return_from(sPc)
    /\ UNCHANGED <<registryVars, pattern, sinkOpen, scanVars, matching,
                   examined, results>>

\* the join returns the worker's result and the command returns it
search_returns ==
    /\ sPc = "returned"
    /\ worker_returns(Cmd)
    /\ sPc' = "done"
    /\ UNCHANGED <<lockVars, pattern, events, sinkOpen, scanVars, sResult>>

\* a concurrent cancel(operation_id)
search_cancel_get ==
    cancel_get(Canceller, CmdId) /\ UNCHANGED <<lockVars, searchVars>>

search_cancel_insert ==
    cancel_insert(Canceller) /\ UNCHANGED <<lockVars, searchVars>>

SearchInit == Init /\ entries = EmptyMap

SearchNext ==
    \/ \E pat \in Patterns : search_invoke(pat) /\ UNCHANGED <<matchVars, deleteVars, restVars>>
    \/ search_pre_cancelled /\ UNCHANGED <<matchVars, deleteVars, restVars>>
    \/ search_register_len /\ UNCHANGED <<matchVars, deleteVars, restVars>>
    \/ search_register_insert /\ UNCHANGED <<matchVars, deleteVars, restVars>>
    \/ search_empty_pattern /\ UNCHANGED <<matchVars, deleteVars, restVars>>
    \/ search_spawn /\ UNCHANGED <<matchVars, deleteVars, restVars>>
    \/ send_started /\ UNCHANGED <<matchVars, deleteVars, restVars>>
    \/ \E d \in Dirs : scan_entry(d) /\ UNCHANGED <<matchVars, deleteVars, restVars>>
    \/ scan_ends /\ UNCHANGED <<matchVars, deleteVars, restVars>>
    \/ compile_regex /\ UNCHANGED <<matchVars, deleteVars, restVars>>
    \/ parallel_match /\ UNCHANGED <<matchVars, deleteVars, restVars>>
    \/ search_completes /\ UNCHANGED <<deleteVars, restVars>>
    \/ search_returns /\ UNCHANGED <<matchVars, deleteVars, restVars>>
    \/ search_cancel_get /\ UNCHANGED <<matchVars, deleteVars, restVars>>
    \/ search_cancel_insert /\ UNCHANGED <<matchVars, deleteVars, restVars>>
    \/ channel_closes /\ UNCHANGED <<matchVars, deleteVars, restVars>>

SearchSpec == SearchInit /\ [][SearchNext]_vars

\* the events of the sends made so far, in order
Sent == [i \in 1..Len(events) |-> events[i][1]]
Terminal == {"Completed", "Cancelled"}
\* the command has returned to its caller
Returned == opPc[Cmd] = "done"

\* C19: every run of a streaming command that returns to its caller has
\* made a sequence of sends that starts with Started and ends with exactly
\* one terminal event (Completed or Cancelled), on every path.
C19_StartedThenOneTerminal ==
    Returned
        => /\ Len(Sent) >= 2
           /\ Sent[1] = "Started"
           /\ Sent[Len(Sent)] \in Terminal
           /\ \A i \in 1..(Len(Sent) - 1) : Sent[i] \notin Terminal

\* C20: search events respect strict phase order: no event follows
\* Completed or Cancelled, at most one of them is sent, Matching is sent at
\* most once, every Scanning precedes Matching, and Completed is sent only
\* after Matching.
C20_SearchPhaseOrder ==
    \A j \in 1..Len(Sent) :
        /\ \A i \in 1..(j - 1) :
              /\ Sent[i] \notin Terminal
              /\ Sent[i] = "Matching" => Sent[j] \notin {"Scanning", "Matching"}
        /\ Sent[j] = "Completed" => \E i \in 1..(j - 1) : Sent[i] = "Matching"

C20_Witness ==
    /\ sPc = "done"
    /\ Len(Sent) > 4
    /\ Sent[2] = "Scanning" /\ Sent[3] = "Scanning"
    /\ Sent[Len(Sent) - 1] = "Matching"
    /\ Sent[Len(Sent)] = "Completed"

\* the send made last was not delivered
LastSendFailed ==
    /\ Len(events) > 0
    /\ ~events[Len(events)][3]
\* the step makes a send
SendStep == Len(events') = Len(events) + 1
\* search_files_blocking has returned
WorkerReturned == sPc \in {"returned", "done"}

\* C22: dead man's switch in search: a send of Started, Scanning or Matching
\* that fails makes search_files_blocking return Ok with an empty match
\* list on that very step; from then on it makes no further send (no
\* Cancelled either), scans no further entry and never starts matching.
C22_SearchDeadMansSwitch ==
    [][/\ (SendStep /\ LastSendFailed' /\ Sent'[Len(Sent')] \notin Terminal)
              => /\ sPc' = "returned"
                 /\ sResult' = "OkEmpty"
                 /\ UNCHANGED <<visited, all_files>>
       /\ (LastSendFailed /\ Sent[Len(Sent)] \notin Terminal)
              => /\ WorkerReturned /\ WorkerReturned'
                 /\ sResult = "OkEmpty"
                 /\ UNCHANGED <<events, scanVars, sResult>>]_vars

C22_Witness ==
    /\ sPc = "done"
    /\ sResult = "OkEmpty"
    /\ events[Len(events)] = <<"Scanning", progress_interval, FALSE>>
    /\ all_files = progress_interval

\* C24: an empty or invalid pattern is rejected before phase 1 begins: a
\* search that returns an error has traversed no entry and has sent neither
\* Scanning nor Matching.
C24_PatternRejectedBeforeScan ==
    sResult = "Err"
        => /\ visited = 0
           /\ all_files = 0
           /\ \A i \in 1..Len(Sent) : Sent[i] \notin {"Scanning", "Matching"}

\* ------------------------------------------------------------ match phase
\* The same search on trees of at most MaxEntries entries, with the
\* parallel pass followed entry by entry: the workers visit the entries in
\* any order and any split, interleaved with the cancel.

\* the closure of filter_map on entry e; m tells whether the entry's name
\* matches the pattern and its metadata can be read
filter_map_entry(e, m) ==
    /\ sPc = "match"
    /\ e \in (1..all_files) \ examined
    /\ examined' = examined \cup {e}
    /\ matching' = IF m THEN matching \cup {e} ELSE matching
    /\ results' = IF cancel_flag[Cmd] THEN results
                  ELSE IF m THEN results \cup {e}
                  ELSE results
    /\ UNCHANGED <<registryVars, searchVars, sMatches>>

\* .collect(): every entry has been visited
collect ==
    /\ sPc = "match"
    /\ examined = 1..all_files
    /\ sPc' = "matched"
    /\ UNCHANGED <<registryVars, pattern, events, sinkOpen, scanVars, sResult,
                   matchVars>>

MatchNext ==
    \/ \E pat \in Patterns : search_invoke(pat) /\ UNCHANGED <<matchVars, deleteVars, restVars>>
    \/ search_pre_cancelled /\ UNCHANGED <<matchVars, deleteVars, restVars>>
    \/ search_register_len /\ UNCHANGED <<matchVars, deleteVars, restVars>>
    \/ search_register_insert /\ UNCHANGED <<matchVars, deleteVars, restVars>>
    \/ search_empty_pattern /\ UNCHANGED <<matchVars, deleteVars, restVars>>
    \/ search_spawn /\ UNCHANGED <<matchVars, deleteVars, restVars>>
    \/ send_started /\ UNCHANGED <<matchVars, deleteVars, restVars>>
    \/ \E d \in Dirs : all_files < MaxEntries /\ scan_entry(d) /\ UNCHANGED <<matchVars, deleteVars, restVars>>
    \/ scan_ends /\ UNCHANGED <<matchVars, deleteVars, restVars>>
    \/ compile_regex /\ UNCHANGED <<matchVars, deleteVars, restVars>>
    \/ \E e \in 1..MaxEntries, m \in BOOLEAN : filter_map_entry(e, m) /\ UNCHANGED <<deleteVars, restVars>>
    \/ collect /\ UNCHANGED <<deleteVars, restVars>>
    \/ search_completes /\ UNCHANGED <<deleteVars, restVars>>
    \/ search_returns /\ UNCHANGED <<matchVars, deleteVars, restVars>>
    \/ search_cancel_get /\ UNCHANGED <<matchVars, deleteVars, restVars>>
    \/ search_cancel_insert /\ UNCHANGED <<matchVars, deleteVars, restVars>>
    \/ channel_closes /\ UNCHANGED <<matchVars, deleteVars, restVars>>

MatchSpec == SearchInit /\ [][MatchNext]_vars

\* a step of search_files_blocking
WorkerStep == <<sPc, events, scanVars, sResult, matchVars>>' #
              <<sPc, events, scanVars, sResult, matchVars>>

\* C21: search discards all work on cancellation: whenever the worker reads
\* the flag as true at a checkpoint of its own thread (per scanned entry,
\* after the traversal, after the parallel pass) it sends Cancelled, which
\* stays its last event, and returns an empty match list; a non-empty list
\* is returned only on the path that sends Completed.
C21_CancelDiscardsWork ==
    [][/\ (WorkerStep /\ sPc \in {"scan", "matched"} /\ cancel_flag[Cmd])
              => /\ events' = Append(events, <<"Cancelled", 0, sinkOpen>>)
                 /\ sPc' = "returned"
                 /\ sResult' = "OkEmpty"
                 /\ sMatches' = {}
       /\ WorkerReturned => events' = events /\ sMatches' = sMatches
       /\ sMatches' # {}
              => /\ sResult' = "OkMatches"
                 /\ Sent'[Len(Sent')] = "Completed"]_vars

C21_Witness ==
    /\ sPc = "done"
    /\ results # {}
    /\ sMatches = {}
    /\ sResult = "OkEmpty"
    /\ Sent[Len(Sent)] = "Cancelled"

\* C23: parallel matching equals sequential matching: whenever the search
\* has sent Completed, every scanned entry was visited and the returned
\* matches are exactly the scanned entries for which the predicate holds,
\* for every order and split of the visits and every interleaving with a
\* concurrent cancel.
C23_ParallelEqualsSequential ==
    (\E i \in 1..Len(Sent) : Sent[i] = "Completed")
        => /\ examined = 1..all_files
           /\ results = matching
           /\ sMatches = matching
           /\ events[Len(events)][2] = Cardinality(matching)

C23_Witness ==
    /\ sPc = "done"
    /\ Sent[Len(Sent)] = "Completed"
    /\ all_files = MaxEntries
    /\ sMatches # {} /\ sMatches # 1..all_files
    /\ cancel_flag[Cmd]

\* ------------------------------------------------------------ delete
\* One run of batch_delete_with_progress under one operation id, with one
\* concurrent cancel of that id and a frontend that may go away.

\* A path is written as the sequence of the pieces between its
\* separators: "/d/f" is <<"", "d", "f">> and the root "/" is <<"", "">>.
Root == <<"", "">>
\* the directory n levels below the root
dir(n) == IF n = 0 THEN Root ELSE <<"">> \o [i \in 1..n |-> "d"]
\* the file "f" of the directory n - 1 levels below the root
path(n) == <<"">> \o [i \in 1..(n - 1) |-> "d"] \o <<"f">>
Paths == {path(n) : n \in 1..NumPaths}
AllDirs == {dir(n) : n \in 0..(NumPaths - 1)}
\* a file that no target list names
Others == {<<"", "d", "g">>}
\* what a target list is drawn from: the files and a directory that holds
\* files and a directory
Targets == Paths \cup {dir(NumPaths - 2)}
\* the file system when the command is invoked
Trees == {AllDirs \cup Paths \cup X : X \in SUBSET Others}

\* path.parent()
parent(p) ==
    LET front == SubSeq(p, 1, Len(p) - 1)
    IN  IF front = <<"">> THEN Root ELSE front
\* dir.matches(MAIN_SEPARATOR).count()
depth(d) == Len(d) - 1
\* the names on the way from the root to p
components(p) == SelectSeq(p, LAMBDA c : c # "")
\* x lies inside the directory y, at any depth
inside(x, y) ==
    LET cx == components(x)
        cy == components(y)
    IN  /\ Len(cx) > Len(cy)
        /\ SubSeq(cx, 1, Len(cy)) = cy
\* path.is_dir()
is_dir(t, p) == p \in t /\ p \in AllDirs
\* fs::read_dir(path): the entries of the directory
read_dir(t, d) == {x \in t : x # d /\ parent(x) = d}
\* fs::remove_dir_all(path)
remove_dir_all(t, p) == {x \in t : x # p /\ ~inside(x, p)}
\* fs::remove_file(path)
remove_file(t, p) == t \ {p}
\* fs::remove_dir(path)
remove_dir(t, d) == t \ {d}
skip_read_dir(t, d) == is_dir(t, d) /\ d # Root
\* fs::remove_dir(path) can succeed: the directory exists, is empty and is
\* not the root
removable(t, d) == is_dir(t, d) /\ read_dir(t, d) = {} /\ d # Root
\* the target lists: any paths, repeated or not
TargetLists == UNION {[1..n -> Targets] : n \in 0..MaxTargets}

drop_aggregate(s, f, d) == [successful |-> << >>, failed |-> << >>, deleted_dirs |-> << >>]

\* Ok(DeleteResult { successful, failed, deleted_dirs })
DeleteResult(s, f, d) == [successful |-> s, failed |-> f, deleted_dirs |-> d]
EmptyResult == DeleteResult(<< >>, << >>, << >>)

\* dirs.sort_by(depth, deepest first) of the candidates, which a HashSet
\* hands over in any order
SortedByDepth(S) ==
    {q \in [1..Cardinality(S) -> S] :
        /\ \A i, j \in DOMAIN q : i # j => q[i] # q[j]
        /\ \A i, j \in DOMAIN q : i < j => depth(q[i]) >= depth(q[j])}

push_nothing(v, x) == v

\* Vec::push
push(v, x) == Append(v, x)

total_unknown(fs) == 0

\* let total = files.len()
total(fs) == Len(fs)

loopVars == <<outcomes, successful, failed, parent_dirs, dirs, deleted_dirs>>

\* batch_delete_with_progress is invoked: registry.try_register(&operation_id)
delete_invoke(fs, ded, t) ==
    /\ dPc = "idle"
    /\ try_register_get(Cmd, CmdId)
    /\ files' = fs
    /\ delete_empty_dirs' = ded
    /\ tree' = t
    /\ dPc' = "invoked"
    /\ UNCHANGED <<lockVars, events, sinkOpen, loopVars, dResult>>

\* Err(_) => { let _ = on_progress.send(Cancelled); return Ok(empty) }
delete_pre_cancelled ==
    /\ dPc = "invoked"
    /\ try_register_remove(Cmd)
    /\ events' = send(events, "Cancelled", 0)
    /\ dResult' = EmptyResult
    /\ dPc' = "done"
    /\ UNCHANGED <<lockVars, sinkOpen, files, delete_empty_dirs, tree, loopVars>>

delete_register_len ==
    /\ dPc = "invoked"
    /\ try_register_len(Cmd)
    /\ UNCHANGED <<lockVars, events, sinkOpen, deleteVars>>

delete_register_insert ==
    /\ dPc = "invoked"
    /\ try_register_insert(Cmd)
    /\ UNCHANGED <<lockVars, events, sinkOpen, deleteVars>>

\* tokio::task::spawn_blocking(move || batch_delete_blocking(...))
delete_spawn ==
    /\ dPc = "invoked"
    /\ spawn_blocking(Cmd)
    /\ dPc' = "send_started"
    /\ UNCHANGED <<lockVars, events, sinkOpen, files, delete_empty_dirs, tree,
                   loopVars, dResult>>

\* on_progress.send(Started { total_files }).is_err() => return Ok(empty)
delete_send_started ==
    /\ dPc = "send_started"
    /\ events' = send(events, "Started", total(files))
    /\ IF sinkOpen
       THEN dPc' = "loop" /\ UNCHANGED dResult
       ELSE dPc' = return_from(dPc) /\ dResult' = EmptyResult
    /\ UNCHANGED <<registryVars, sinkOpen, files, delete_empty_dirs, tree, loopVars>>

zero_based(index) == index

\* current: index + 1
current(index) == index + 1

\* one iteration of `for (index, file_path) in files`, up to the deletion
\* call; ok tells whether fs::remove_dir_all / fs::remove_file succeeds
delete_target(ok) ==
    /\ dPc = "loop"
    /\ Len(outcomes) < Len(files)
    /\ IF load(cancel_flag)
       THEN /\ events' = send(events, "Cancelled", 0)
            /\ dPc' = return_from(dPc)
            /\ dResult' = DeleteResult(successful, failed, deleted_dirs)
            /\ UNCHANGED <<outcomes, parent_dirs, tree>>
       ELSE LET file_path == files[Len(outcomes) + 1]
            IN  /\ ok => file_path \in tree
                /\ parent_dirs' = IF delete_empty_dirs
                                  THEN parent_dirs \cup {parent(file_path)}
                                  ELSE parent_dirs
                /\ tree' = IF ~ok THEN tree
                           ELSE IF is_dir(tree, file_path)
                                THEN remove_dir_all(tree, file_path)
                                ELSE remove_file(tree, file_path)
                /\ outcomes' = Append(outcomes, ok)
                /\ dPc' = "progress"
                /\ UNCHANGED <<events, dResult>>
    /\ UNCHANGED <<registryVars, sinkOpen, files, delete_empty_dirs,
                   successful, failed, dirs, deleted_dirs>>

\* the rest of the iteration: send(Progress { .. }), record the outcome,
\* and return the aggregate if the send failed
send_progress ==
    /\ dPc = "progress"
    /\ LET index == Len(outcomes) - 1
           file_path == files[index + 1]
           result == outcomes[index + 1]
       IN  /\ events' = send(events, "Progress",
                             <<current(index), total(files), file_path>>)
           /\ successful' = IF result THEN push(successful, file_path)
                            ELSE successful
           /\ failed' = IF result THEN failed ELSE push(failed, file_path)
           /\ IF sinkOpen
              THEN dPc' = "loop" /\ UNCHANGED dResult
              ELSE /\ dPc' = return_from(dPc)
                   /\ dResult' = DeleteResult(successful', failed', deleted_dirs)
    /\ UNCHANGED <<registryVars, sinkOpen, files, delete_empty_dirs, tree, outcomes,
                   parent_dirs, dirs, deleted_dirs>>

\* the loop is over: if delete_empty_dirs && !cancel_flag.load(), collect
\* and sort the candidates
delete_loop_ends ==
    /\ dPc = "loop"
    /\ Len(outcomes) = Len(files)
    /\ IF delete_empty_dirs /\ ~load(cancel_flag)
       THEN dirs' \in SortedByDepth(parent_dirs) /\ dPc' = "cleanup"
       ELSE dirs' = << >> /\ dPc' = "complete"
    /\ UNCHANGED <<registryVars, events, sinkOpen, files, delete_empty_dirs, tree,
                   outcomes, successful, failed, parent_dirs, deleted_dirs,
                   dResult>>

\* one iteration of `for dir in dirs`; removed tells whether the directory
\* exists, is empty and fs::remove_dir succeeds
cleanup_dir(removed) ==
    /\ dPc = "cleanup"
    /\ dirs # << >>
    /\ IF load(cancel_flag)
       THEN /\ events' = send(events, "Cancelled", 0)
            /\ dPc' = return_from(dPc)
            /\ dResult' = DeleteResult(successful, failed, deleted_dirs)
            /\ UNCHANGED <<dirs, deleted_dirs, tree>>
       ELSE /\ removed => removable(tree, Head(dirs))
            /\ tree' = IF removed THEN remove_dir(tree, Head(dirs)) ELSE tree
            /\ deleted_dirs' = IF removed THEN push(deleted_dirs, Head(dirs))
                               ELSE deleted_dirs
            /\ dirs' = Tail(dirs)
            /\ UNCHANGED <<events, dPc, dResult>>
    /\ UNCHANGED <<registryVars, sinkOpen, files, delete_empty_dirs, outcomes,
                   successful, failed, parent_dirs>>

\* let _ = on_progress.send(Completed { .. }); Ok(DeleteResult { .. })
delete_completes ==
    /\ \/ dPc = "complete"
       \/ dPc = "cleanup" /\ dirs = << >>
    /\ events' = send(events, "Completed", <<Len(successful), Len(failed)>>)
    /\ dPc' = return_from(dPc)
    /\ dResult' = DeleteResult(successful, failed, deleted_dirs)
    /\ UNCHANGED <<registryVars, sinkOpen, files, delete_empty_dirs, tree, loopVars>>

\* the join returns the worker's result and the command returns it
delete_returns ==
    /\ dPc = "returned"
    /\ worker_returns(Cmd)
    /\ dPc' = "done"
    /\ UNCHANGED <<lockVars, events, sinkOpen, files, delete_empty_dirs, tree,
                   loopVars, dResult>>

\* what the delete leaves alone of the search's state
deleteFrame == <<sPc, pattern, scanVars, sResult, matchVars, restVars>>

DeleteInit == Init /\ entries = EmptyMap

DeleteNext ==
    \/ \E fs \in TargetLists, ded \in BOOLEAN, t \in Trees :
          delete_invoke(fs, ded, t) /\ UNCHANGED deleteFrame
    \/ delete_pre_cancelled /\ UNCHANGED deleteFrame
    \/ delete_register_len /\ UNCHANGED deleteFrame
    \/ delete_register_insert /\ UNCHANGED deleteFrame
    \/ delete_spawn /\ UNCHANGED deleteFrame
    \/ delete_send_started /\ UNCHANGED deleteFrame
    \/ \E ok \in BOOLEAN : delete_target(ok) /\ UNCHANGED deleteFrame
    \/ send_progress /\ UNCHANGED deleteFrame
    \/ delete_loop_ends /\ UNCHANGED deleteFrame
    \/ \E removed \in BOOLEAN : cleanup_dir(removed) /\ UNCHANGED deleteFrame
    \/ delete_completes /\ UNCHANGED deleteFrame
    \/ delete_returns /\ UNCHANGED deleteFrame
    \/ search_cancel_get /\ UNCHANGED <<matchVars, deleteVars, restVars>>
    \/ search_cancel_insert /\ UNCHANGED <<matchVars, deleteVars, restVars>>
    \/ channel_closes /\ UNCHANGED <<matchVars, deleteVars, restVars>>

DeleteSpec == DeleteInit /\ [][DeleteNext]_vars

\* the targets among the first n whose attempt ended as `ok`, in input order
RECURSIVE Recorded(_, _)
Recorded(n, ok) ==
    IF n = 0 THEN << >>
    ELSE LET r == Recorded(n - 1, ok)
         IN  IF outcomes[n] = ok THEN Append(r, files[n]) ELSE r

\* batch_delete_blocking has returned
DeleteReturned == dPc \in {"returned", "done"}
\* a step of batch_delete_blocking
DeleteStep == <<dPc, events, loopVars, dResult>>' # <<dPc, events, loopVars, dResult>>

\* C26: delete keeps partial work on cancellation: when the worker reads
\* the flag as true at the checkpoint before target i, it sends Cancelled,
\* attempts no deletion of target i, and returns exactly the successes and
\* failures recorded for targets 1..i-1 with the directories cleaned so
\* far; once it has returned no later target is attempted.
C26_DeleteKeepsPartialWork ==
    [][/\ (DeleteStep /\ dPc = "loop" /\ Len(outcomes) < Len(files)
                      /\ cancel_flag[Cmd])
              => /\ events' = Append(events, <<"Cancelled", 0, sinkOpen>>)
                 /\ dPc' = "returned"
                 /\ outcomes' = outcomes
                 /\ dResult' = [successful |-> Recorded(Len(outcomes), TRUE),
                                failed |-> Recorded(Len(outcomes), FALSE),
                                deleted_dirs |-> deleted_dirs]
       /\ DeleteReturned => UNCHANGED <<outcomes, deleted_dirs, dResult, events>>]_vars

C26_Witness ==
    /\ dPc = "done"
    /\ Sent[Len(Sent)] = "Cancelled"
    /\ Len(outcomes) = 2
    /\ Len(files) = 3
    /\ Len(dResult.successful) = 1
    /\ Len(dResult.failed) = 1

\* C27: delete accounting: at every return of the delete pipeline each
\* target whose deletion was attempted appears exactly once, in input
\* order, in either successful or failed; a failed deletion never stops the
\* batch (a run that stops short of the last target was cancelled or lost
\* its channel); and a Completed event is sent only when successful plus
\* failed equals the number of targets, and it carries those two counts.
C27_DeleteAccounting ==
    /\ DeleteReturned
          => /\ dResult.successful = Recorded(Len(outcomes), TRUE)
             /\ dResult.failed = Recorded(Len(outcomes), FALSE)
             /\ Len(dResult.successful) + Len(dResult.failed) = Len(outcomes)
             /\ Len(outcomes) < Len(files)
                   => \/ Sent[Len(Sent)] = "Cancelled"
                      \/ LastSendFailed
    /\ \A i \in 1..Len(Sent) :
          Sent[i] = "Completed"
             => /\ events[i][2] = <<Len(successful), Len(failed)>>
                /\ Len(successful) + Len(failed) = Len(files)

C27_Witness ==
    /\ dPc = "done"
    /\ Sent[Len(Sent)] = "Completed"
    /\ outcomes = <<TRUE, FALSE, TRUE>>
    /\ files[1] = files[2]
    /\ events[Len(events)][2] = <<2, 1>>

\* the Progress events sent so far, in order
ProgressEvents == SelectSeq(events, LAMBDA e : e[1] = "Progress")

\* C28: delete progress events are 1-based and gap-free: the k-th Progress
\* event of a run carries current = k, total = the number of targets and
\* current_path = the k-th target, and it is sent only after the deletion
\* of the k-th target has been attempted.
C28_ProgressOneBasedGapFree ==
    LET sent == ProgressEvents
    IN  \A k \in 1..Len(sent) :
           /\ sent[k][2] = <<k, Len(files), files[k]>>
           /\ k <= Len(outcomes)

C28_Witness ==
    /\ dPc = "done"
    /\ Len(ProgressEvents) = 3
    /\ ProgressEvents[3][2] = <<3, 3, files[3]>>
    /\ files[1] # files[3]

\* C29: dead man's switch in delete: if the send of the Progress event for
\* target k fails, the outcome of target k is still recorded in successful
\* or failed and the pipeline returns Ok with the aggregate for targets
\* 1..k on that very step; from then on it attempts no deletion, cleans no
\* directory and makes no further send.
C29_DeleteDeadMansSwitch ==
    [][/\ (SendStep /\ LastSendFailed' /\ Sent'[Len(Sent')] = "Progress")
              => LET k == events'[Len(events')][2][1]
                 IN  /\ k = Len(outcomes)
                     /\ dPc' = "returned"
                     /\ dResult' = [successful |-> Recorded(k, TRUE),
                                    failed |-> Recorded(k, FALSE),
                                    deleted_dirs |-> << >>]
                     /\ Len(dResult'.successful) + Len(dResult'.failed) = k
       /\ (LastSendFailed /\ Sent[Len(Sent)] = "Progress")
              => /\ DeleteReturned /\ DeleteReturned'
                 /\ dirs = << >> /\ deleted_dirs = << >>
                 /\ UNCHANGED <<events, loopVars, dResult>>]_vars

C29_Witness ==
    /\ dPc = "done"
    /\ LastSendFailed
    /\ events[Len(events)][1] = "Progress"
    /\ events[Len(events)][2][1] = 2
    /\ Len(files) = 3
    /\ delete_empty_dirs
    /\ dResult.failed = <<files[2]>>
    /\ dResult.successful = <<files[1]>>

\* C30: Started precedes every deletion: batch_delete_blocking sends
\* Started, once and with the total count, before it attempts any deletion,
\* and if that send fails it deletes nothing, sends nothing more and returns
\* an empty DeleteResult.
C30_StartedPrecedesDeletion ==
    /\ outcomes # << >>
          => /\ Len(events) >= 1
             /\ events[1] = <<"Started", Len(files), TRUE>>
    /\ \A i \in 1..Len(Sent) :
          Sent[i] = "Started"
             => /\ i = 1
                /\ events[i][2] = Len(files)
                /\ ~events[i][3]
                      => /\ DeleteReturned
                         /\ Len(events) = 1
                         /\ outcomes = << >>
                         /\ dResult = [successful |-> << >>, failed |-> << >>,
                                       deleted_dirs |-> << >>]

C30_Witness ==
    /\ dPc = "done"
    /\ events = <<<<"Started", 3, FALSE>>>>
    /\ Len(files) = 3
    /\ delete_empty_dirs

\* ------------------------------------------------------------ streaming
\* One streaming command, a search or a delete, under one operation id with
\* one concurrent cancel of that id.

\* the command that was invoked is the search
IsSearch == dPc = "idle"

StreamNext ==
    \/ \E pat \in Patterns : search_invoke(pat) /\ UNCHANGED <<matchVars, deleteVars, restVars>>
    \/ IsSearch /\ search_pre_cancelled /\ UNCHANGED <<matchVars, deleteVars, restVars>>
    \/ IsSearch /\ search_register_len /\ UNCHANGED <<matchVars, deleteVars, restVars>>
    \/ IsSearch /\ search_register_insert /\ UNCHANGED <<matchVars, deleteVars, restVars>>
    \/ IsSearch /\ search_empty_pattern /\ UNCHANGED <<matchVars, deleteVars, restVars>>
    \/ IsSearch /\ search_spawn /\ UNCHANGED <<matchVars, deleteVars, restVars>>
    \/ send_started /\ UNCHANGED <<matchVars, deleteVars, restVars>>
    \/ \E d \in Dirs : scan_entry(d) /\ UNCHANGED <<matchVars, deleteVars, restVars>>
    \/ scan_ends /\ UNCHANGED <<matchVars, deleteVars, restVars>>
    \/ compile_regex /\ UNCHANGED <<matchVars, deleteVars, restVars>>
    \/ parallel_match /\ UNCHANGED <<matchVars, deleteVars, restVars>>
    \/ search_completes /\ UNCHANGED <<deleteVars, restVars>>
    \/ search_returns /\ UNCHANGED <<matchVars, deleteVars, restVars>>
    \/ \E fs \in TargetLists, ded \in BOOLEAN, t \in Trees :
          delete_invoke(fs, ded, t) /\ UNCHANGED deleteFrame
    \/ delete_pre_cancelled /\ UNCHANGED deleteFrame
    \/ delete_register_len /\ UNCHANGED deleteFrame
    \/ delete_register_insert /\ UNCHANGED deleteFrame
    \/ delete_spawn /\ UNCHANGED deleteFrame
    \/ delete_send_started /\ UNCHANGED deleteFrame
    \/ \E ok \in BOOLEAN : delete_target(ok) /\ UNCHANGED deleteFrame
    \/ send_progress /\ UNCHANGED deleteFrame
    \/ delete_loop_ends /\ UNCHANGED deleteFrame
    \/ \E removed \in BOOLEAN : cleanup_dir(removed) /\ UNCHANGED deleteFrame
    \/ delete_completes /\ UNCHANGED deleteFrame
    \/ delete_returns /\ UNCHANGED deleteFrame
    \/ search_cancel_get /\ UNCHANGED <<matchVars, deleteVars, restVars>>
    \/ search_cancel_insert /\ UNCHANGED <<matchVars, deleteVars, restVars>>
    \/ channel_closes /\ UNCHANGED <<matchVars, deleteVars, restVars>>

StreamSpec == SearchInit /\ [][StreamNext]_vars

\* try_register has returned Err to the command
PreCancelled == opExit[Cmd] = "pre_cancelled"

\* C25: a pre-cancelled streaming command performs no work: on the step in
\* which try_register fails the registry is left without an entry for the
\* id, the only send is Cancelled, and the command returns at once, the
\* search with an empty match list and the delete with three empty lists;
\* nothing was traversed or deleted, and from then on the worker is never
\* spawned and nothing is traversed, deleted or sent.
C25_PreCancelledDoesNoWork ==
    [][/\ (~PreCancelled /\ PreCancelled')
              => /\ CmdId \notin DOMAIN entries'
                 /\ opPc'[Cmd] = "done"
                 /\ events' = <<<<"Cancelled", 0, sinkOpen>>>>
                 /\ visited' = 0 /\ all_files' = 0 /\ outcomes' = << >>
                 /\ IF IsSearch
                    THEN sResult' = "OkEmpty" /\ sMatches' = {} /\ sPc' = "idle"
                    ELSE /\ dPc' = "done"
                         /\ dResult' = [successful |-> << >>, failed |-> << >>,
                                        deleted_dirs |-> << >>]
       /\ PreCancelled
              => /\ sPc = "idle" /\ dPc \in {"idle", "done"}
                 /\ opPc'[Cmd] = "done"
                 /\ UNCHANGED <<events, sPc, dPc, scanVars, matchVars,
                                loopVars, sResult, dResult>>]_vars

C25_Witness ==
    /\ PreCancelled
    /\ dPc = "done"
    /\ Len(files) = 3
    /\ delete_empty_dirs
    /\ events = <<<<"Cancelled", 0, TRUE>>>>
    /\ CmdId \notin DOMAIN entries

\* the check guarding the cleanup was made and read the flag as true
GuardReadTrue == dPc = "complete" /\ delete_empty_dirs

\* C31: in the delete pipeline the terminal event reflects cancellation:
\* whenever a read of the flag made by batch_delete_blocking (per-target
\* checkpoint, the check guarding the cleanup, per-directory checkpoint)
\* returns true, the terminal event of the run is Cancelled, and no
\* Completed is ever sent after it.
C31_DeleteTerminalReflectsCancel ==
    [][/\ (DeleteStep /\ cancel_flag[Cmd]
             /\ \/ dPc = "loop" /\ Len(outcomes) < Len(files)
                \/ dPc = "cleanup" /\ dirs # << >>)
              => /\ events' = Append(events, <<"Cancelled", 0, sinkOpen>>)
                 /\ dPc' = "returned"
       /\ (GuardReadTrue /\ SendStep) => Sent'[Len(Sent')] = "Cancelled"
       /\ (Len(Sent) > 0 /\ Sent[Len(Sent)] = "Cancelled") => events' = events]_vars

\* the cleanup processes the candidate at the head of dirs
ProcessDir == dPc = "cleanup" /\ dirs # << >> /\ dirs' = Tail(dirs)

\* C32: empty-directory cleanup is bottom-up: the candidates are processed
\* in order of non-increasing separator count, so deleted_dirs is ordered
\* deepest first and a directory is never processed before a candidate
\* nested inside it; every directory the cleanup removes is reported in
\* deleted_dirs.
C32_CleanupBottomUp ==
    [][ProcessDir
          => /\ \A i \in 2..Len(dirs) :
                   /\ depth(dirs[i]) <= depth(Head(dirs))
                   /\ ~inside(dirs[i], Head(dirs))
             /\ \A i, j \in 1..Len(deleted_dirs') :
                   i < j => depth(deleted_dirs'[i]) >= depth(deleted_dirs'[j])
             /\ tree' # tree
                   => /\ tree' = tree \ {Head(dirs)}
                      /\ deleted_dirs' = Append(deleted_dirs, Head(dirs))]_vars

\* the target of the iteration that is about to run
file_path == files[Len(outcomes) + 1]
\* the directories the step removes
RemovedDirs == (tree \ tree') \cap AllDirs

\* C35, as stated: the cleanup removes a directory only if it is the
\* direct parent of a processed target, exists and contains no entry when
\* it is checked; with delete_empty_dirs false, deleted_dirs is always
\* empty and no directory other than a target is removed.
C35_CleanupOnlyEligible ==
    [][/\ (ProcessDir /\ tree' # tree)
              => LET d == Head(dirs)
                 IN  /\ \E k \in 1..Len(outcomes) : parent(files[k]) = d
                     /\ d \in tree
                     /\ read_dir(tree, d) = {}
                     /\ tree' = tree \ {d}
       /\ ~delete_empty_dirs
              => /\ deleted_dirs' = << >>
                 /\ \A x \in RemovedDirs : x = file_path]_vars

\* C35, amended: as above, but with delete_empty_dirs false the
\* directories removed are the target being deleted and the directories
\* inside it.
C35_CleanupOnlyEligibleOrInside ==
    [][/\ (ProcessDir /\ tree' # tree)
              => LET d == Head(dirs)
                 IN  /\ \E k \in 1..Len(outcomes) : parent(files[k]) = d
                     /\ d \in tree
                     /\ read_dir(tree, d) = {}
                     /\ tree' = tree \ {d}
       /\ ~delete_empty_dirs
              => /\ deleted_dirs' = << >>
                 /\ \A x \in RemovedDirs :
                       x = file_path \/ inside(x, file_path)]_vars

C35_Witness ==
    /\ dPc = "done"
    /\ delete_empty_dirs
    /\ Sent[Len(Sent)] = "Completed"
    /\ deleted_dirs = <<dir(2), dir(1)>>
    /\ Root \in tree

\* ------------------------------------------------------------ match_simple
\* Strings are sequences of UTF-8 bytes. The alphabet has two ASCII letters
\* that differ in case only and one letter of two bytes.
Chars == {<<"a">>, <<"A">>, <<"C3", "A9">>}

RECURSIVE encode(_)
\* the bytes of a sequence of characters
encode(cs) == IF cs = << >> THEN << >> ELSE Head(cs) \o encode(Tail(cs))

Strings(lo, hi) == {encode(cs) : cs \in UNION {[1..k -> Chars] : k \in lo..hi}}

\* str::to_lowercase
to_lowercase(str) == [i \in DOMAIN str |-> IF str[i] = "A" THEN "a" ELSE str[i]]

\* str::is_char_boundary: the byte at index i does not continue a character
is_char_boundary(str, i) ==
    \/ i = 0
    \/ i = Len(str)
    \/ i < Len(str) /\ str[i + 1] # "A9"

\* the needle lies in hay at byte offset i
occurs_at(hay, needle, i) ==
    /\ i + Len(needle) <= Len(hay)
    /\ SubSeq(hay, i + 1, i + Len(needle)) = needle

NotFound == 0 - 1

\* str::find: the byte offset of the first occurrence
find(hay, needle) ==
    IF \E i \in 0..Len(hay) : occurs_at(hay, needle, i)
    THEN CHOOSE i \in 0..Len(hay) :
            /\ occurs_at(hay, needle, i)
            /\ \A j \in 0..(i - 1) : ~occurs_at(hay, needle, j)
    ELSE NotFound

\* start = abs_pos + 1
next_start(abs_pos, plen) == abs_pos + 1

RECURSIVE while_find(_, _, _, _, _)
\* while let Some(pos) = search_name[start..].find(&search_pattern) { .. }
\* and the Option returned after it; slicing off a character boundary panics
while_find(search_name, search_pattern, plen, start, matches) ==
    IF start > Len(search_name) \/ ~is_char_boundary(search_name, start)
    THEN [kind |-> "Panic", ranges |-> matches]
    ELSE LET pos == find(SubSeq(search_name, start + 1, Len(search_name)),
                         search_pattern)
         IN  IF pos = NotFound
             THEN IF matches = << >>
                  THEN [kind |-> "None", ranges |-> << >>]
                  ELSE [kind |-> "Some", ranges |-> matches]
             ELSE LET abs_pos == start + pos
                  IN  while_find(search_name, search_pattern, plen,
                                 next_start(abs_pos, plen),
                                 Append(matches, <<abs_pos, abs_pos + plen>>))

match_simple(n, p, cs) ==
    LET search_name == IF cs THEN n ELSE to_lowercase(n)
        search_pattern == IF cs THEN p ELSE to_lowercase(p)
    IN  while_find(search_name, search_pattern, Len(p), 0, << >>)

\* one call of match_simple
call_match_simple(n, p, cs) ==
    /\ simple_result.kind = "NotCalled"
    /\ name' = n
    /\ pattern_arg' = p
    /\ case_sensitive' = cs
    /\ simple_result' = match_simple(n, p, cs)
    /\ UNCHANGED <<registryVars, searchVars, matchVars, deleteVars, renameVars>>

SimpleNext ==
    \E n \in Strings(0, MaxNameLen), p \in Strings(1, MaxPatternLen), cs \in BOOLEAN :
        call_match_simple(n, p, cs)

SimpleSpec == Init /\ [][SimpleNext]_vars

\* the pattern occurs in the name, under the case mode of the call
Occurs ==
    LET hay == IF case_sensitive THEN name ELSE to_lowercase(name)
        needle == IF case_sensitive THEN pattern_arg ELSE to_lowercase(pattern_arg)
    IN  \E i \in 0..Len(hay) : occurs_at(hay, needle, i)

\* C33: substring matching records non-overlapping occurrences, left to
\* right: for every name and non-empty pattern match_simple returns None
\* exactly when the pattern does not occur, and otherwise ranges
\* (start, end) with end - start equal to the pattern length, in
\* increasing order, each starting at or after the end of the one before.
C33_MatchSimpleNonOverlapping ==
    simple_result.kind # "NotCalled"
        => LET r == simple_result.ranges
           IN  IF Occurs
               THEN /\ simple_result.kind = "Some"
                    /\ r # << >>
                    /\ \A k \in 1..Len(r) : r[k][2] - r[k][1] = Len(pattern_arg)
                    /\ \A k \in 1..(Len(r) - 1) :
                          /\ r[k][1] < r[k + 1][1]
                          /\ r[k + 1][1] >= r[k][2]
               ELSE simple_result.kind = "None"

\* the step collects an entry of the tree (the base directory, which the
\* walker yields first, is skipped and not collected)
EntryCollected == sPc = "scan" /\ all_files' = all_files + 1

\* C36: during the scan a Scanning event is emitted every fixed batch of
\* entries: each time the number of collected entries is a multiple of the
\* batch size when an entry is visited, a Scanning event carrying that
\* running count is sent, and no Scanning event carries a count that is
\* not a multiple of the batch size.
C36_ScanningEveryBatch ==
    [][/\ (EntryCollected /\ all_files % progress_interval = 0)
              => events' = Append(events, <<"Scanning", all_files, TRUE>>)
       /\ \A i \in 1..Len(events') :
              events'[i][1] = "Scanning" => events'[i][2] % progress_interval = 0]_vars

\* ------------------------------------------------------------ rename
\* One run of batch_rename or of batch_rename_with_progress, with a
\* frontend that may go away and a cancel of the id the other commands use.

\* a path that does not exist before the renames
NewPath == <<"", "n">>
\* the (old_path, new_path) pairs a list is drawn from
Pairs == Paths \X (Paths \cup {NewPath})
PairLists == UNION {[1..n -> Pairs] : n \in 0..MaxPairs}
\* the file system when the command is invoked
RenameTree == AllDirs \cup Paths

\* fs::rename(&old_path, &new_path)
rename(t, old_path, new_path) == (t \ {old_path}) \cup {new_path}

\* format!("Failed to rename {}: {}", old_path, e)
format(old_path) == <<"Failed to rename", old_path>>

RECURSIVE join(_)
\* errors.join("\n")
join(errs) ==
    IF Len(errs) <= 1 THEN errs
    ELSE <<Head(errs), "\n">> \o join(Tail(errs))

Ok(v) == [kind |-> "Ok", value |-> v]
Err(v) == [kind |-> "Err", value |-> v]

renameFrame == <<registryVars, sPc, pattern, scanVars, sResult, matchVars,
                 dPc, files, delete_empty_dirs, loopVars, dResult, simpleVars>>

\* batch_rename(files) / batch_rename_with_progress(files, on_progress)
rename_invoke(ps, wp) ==
    /\ rPc = "idle"
    /\ pairs' = ps
    /\ with_progress' = wp
    /\ tree' = RenameTree
    /\ rPc' = IF wp THEN "send_started" ELSE "loop"
    /\ UNCHANGED <<events, sinkOpen, attempts, renamed_files, errors, rResult>>

\* let _ = on_progress.send(RenameProgress::Started { total_files: total })
rename_send_started ==
    /\ rPc = "send_started"
    /\ events' = send(events, "Started", total(pairs))
    /\ rPc' = "loop"
    /\ UNCHANGED <<sinkOpen, tree, with_progress, pairs, attempts,
                   renamed_files, errors, rResult>>

\* match fs::rename(&old_path, &new_path) { Ok => push, Err => push };
\* ok tells whether the rename succeeds
rename_pair(ok) ==
    /\ rPc = "loop"
    /\ Len(attempts) < Len(pairs)
    /\ LET old_path == pairs[Len(attempts) + 1][1]
           new_path == pairs[Len(attempts) + 1][2]
       IN  /\ ok => old_path \in tree
           /\ tree' = IF ok THEN rename(tree, old_path, new_path) ELSE tree
           /\ renamed_files' = IF ok THEN push(renamed_files, new_path)
                               ELSE renamed_files
           /\ errors' = IF ok THEN errors ELSE push(errors, format(old_path))
    /\ attempts' = Append(attempts, ok)
    /\ rPc' = IF with_progress THEN "progress" ELSE "loop"
    /\ UNCHANGED <<events, sinkOpen, with_progress, pairs, rResult>>

\* let _ = on_progress.send(RenameProgress::Progress { .. })
rename_send_progress ==
    /\ rPc = "progress"
    /\ LET index == Len(attempts) - 1
       IN  events' = send(events, "Progress",
                          <<current(index), total(pairs), pairs[index + 1][2]>>)
    /\ rPc' = "loop"
    /\ UNCHANGED <<sinkOpen, tree, with_progress, pairs, attempts,
                   renamed_files, errors, rResult>>

\* after the loop: send(Completed { .. }) in the streaming command, then
\* if errors.is_empty() { Ok(renamed_files) } else { Err(errors.join("\n")) }
rename_returns ==
    /\ rPc = "loop"
    /\ Len(attempts) = Len(pairs)
    /\ events' = IF with_progress
                 THEN send(events, "Completed",
                           <<Len(renamed_files), Len(errors)>>)
                 ELSE events
    /\ rResult' = IF errors = << >> THEN Ok(renamed_files) ELSE Err(join(errors))
    /\ rPc' = "done"
    /\ UNCHANGED <<sinkOpen, tree, with_progress, pairs, attempts,
                   renamed_files, errors>>

\* what a step of the registry or of the channel leaves alone here
renameRest == <<matchVars, deleteVars, restVars>>

RenameNext ==
    \/ \E ps \in PairLists, wp \in BOOLEAN : rename_invoke(ps, wp) /\ UNCHANGED renameFrame
    \/ rename_send_started /\ UNCHANGED renameFrame
    \/ \E ok \in BOOLEAN : rename_pair(ok) /\ UNCHANGED renameFrame
    \/ rename_send_progress /\ UNCHANGED renameFrame
    \/ rename_returns /\ UNCHANGED renameFrame
    \/ search_cancel_get /\ UNCHANGED renameRest
    \/ search_cancel_insert /\ UNCHANGED renameRest
    \/ channel_closes /\ UNCHANGED renameRest

RenameSpec == Init /\ [][RenameNext]_vars

RECURSIVE TreeAfter(_)
\* the file system after the first k pairs, every successful rename kept
TreeAfter(k) ==
    IF k = 0 THEN RenameTree
    ELSE IF attempts[k]
         THEN (TreeAfter(k - 1) \ {pairs[k][1]}) \cup {pairs[k][2]}
         ELSE TreeAfter(k - 1)

\* the pairs among the first k whose rename ended as `ok`, in input order
RECURSIVE Attempted(_, _)
Attempted(k, ok) ==
    IF k = 0 THEN << >>
    ELSE LET r == Attempted(k - 1, ok)
         IN  IF attempts[k] = ok THEN Append(r, pairs[k]) ELSE r

\* C34: batch_rename is best-effort, not all-or-nothing: every pair is
\* attempted in order even after an earlier pair failed, successful
\* renames are not rolled back, and the result is Ok with the list of new
\* paths exactly when no pair failed, otherwise Err carrying one message
\* per failed pair.
C34_BatchRenameBestEffort ==
    (rPc = "done" /\ ~with_progress)
        => LET N == Len(pairs)
               done == Attempted(N, TRUE)
               lost == Attempted(N, FALSE)
           IN  /\ Len(attempts) = N
               /\ tree = TreeAfter(N)
               /\ IF lost = << >>
                  THEN rResult = [kind |-> "Ok",
                                  value |-> [k \in 1..N |-> pairs[k][2]]]
                  ELSE /\ rResult.kind = "Err"
                       /\ Len(errors) = Len(lost)
                       /\ \A k \in 1..Len(lost) :
                             errors[k] = <<"Failed to rename", lost[k][1]>>
                       /\ Len(rResult.value) = 2 * Len(lost) - 1
                       /\ \A k \in 1..Len(lost) :
                             rResult.value[2 * k - 1] = errors[k]
               /\ renamed_files = [k \in 1..Len(done) |-> done[k][2]]

C34_Witness ==
    /\ rPc = "done"
    /\ ~with_progress
    /\ attempts = <<FALSE, TRUE>>
    /\ rResult.kind = "Err"
    /\ NewPath \in tree
    /\ pairs[2][1] \notin tree

\* C37: the streaming rename has no cancellation and no liveness check: for
\* a list of N pairs it always attempts all N renames and sends Started{N},
\* then exactly N Progress events with current = 1..N in order, then
\* Completed with successful + failed = N, whether or not a send fails and
\* whatever the registry contains.
C37_RenameStreamsToTheEnd ==
    (rPc = "done" /\ with_progress)
        => LET N == Len(pairs)
           IN  /\ Len(attempts) = N
               /\ Len(events) = N + 2
               /\ Sent[1] = "Started" /\ events[1][2] = N
               /\ \A k \in 1..N :
                     /\ Sent[k + 1] = "Progress"
                     /\ events[k + 1][2] = <<k, N, pairs[k][2]>>
               /\ Sent[N + 2] = "Completed"
               /\ events[N + 2][2] = <<Len(renamed_files), Len(errors)>>
               /\ Len(renamed_files) + Len(errors) = N

C37_Witness ==
    /\ rPc = "done"
    /\ with_progress
    /\ Len(pairs) = 2
    /\ ~events[2][3]
    /\ ~events[4][3]
    /\ CmdId \in DOMAIN entries
    /\ attempts = <<TRUE, FALSE>>

\* ------------------------------------------------------------ cancel during a run
\* try_register has returned Ok to command o and its guard is not dropped
InRun(o) == opPc[o] \in {"registered", "running"}
\* no other command uses the id of command o
UniqueId(o) == \A p \in Ops \ {o} : opId[p] # opId[o]

\* C38: a cancel that arrives during a run reaches the worker: for an
\* operation with a unique id, any cancel(id) that starts after
\* try_register(id) has returned and before the guard is dropped sets the
\* very flag the worker polls, and that flag stays set for the rest of the
\* run, so that the next checkpoint the worker executes observes true.
C38_CancelDuringRunReachesWorker ==
    [][\A o \in Ops :
          (InRun(o) /\ UniqueId(o))
              => /\ \A c \in Cancels :
                       (CancelStarts(c) /\ cId'[c] = opId[o]) => cancel_flag'[o]
                 /\ (cancel_flag[o] /\ InRun(o)') => cancel_flag'[o]]_vars

\* ------------------------------------------------------------ late cancel
\* cancel(id) found no entry and runs its insert
TombstoneInserted(c) == cPc[c] = "cancel_insert" /\ cPc'[c] = "done"
\* try_register(id) of command o runs its lookup
RegisterStarts(o) == opPc[o] = "idle" /\ opPc'[o] # "idle"
\* try_register of command o removes the Tombstone and returns
Consumes(o) == opPc[o] = "reg_remove" /\ opPc'[o] = "done"

\* C39: a late cancel leaves a Tombstone: a cancel(id) that finds no entry
\* (the operation's guard has been dropped) inserts a Tombstone for id; the
\* Tombstone stays in the registry until a sweep or a try_register of id
\* takes it away; and a try_register(id) that meets it fails with
\* CancelledError, although no cancel came after that operation was
\* requested.
C39_LateCancelLeavesTombstone ==
    [][\A id \in OpIds :
          /\ \A c \in Cancels :
                (TombstoneInserted(c) /\ cId[c] = id) => EntryTombstone(id)'
          /\ (EntryTombstone(id) /\ ~EntryTombstone(id)')
                => \/ \E o \in Ops : Consumes(o) /\ opId[o] = id
                   \/ \E o \in Ops : SweepStep(o)
          /\ \A o \in Ops :
                (EntryTombstone(id) /\ RegisterStarts(o) /\ opId'[o] = id)
                    => opPc'[o] = "reg_remove"
          /\ \A o \in Ops :
                (Consumes(o) /\ opId[o] = id)
                    => opResult'[o] = "Err" /\ opExit'[o] = "pre_cancelled"]_vars

====
